---- MODULE Spec2Model ----
(***************************************************************************)
(* The relay client of noscli (internal/nostr): the Stream session         *)
(* goroutine with its two output channels, the single-shot Publish, and    *)
(* the event / frame helpers they use.                                     *)
(***************************************************************************)
EXTENDS Integers, Sequences, FiniteSets, TLC

\* ------------------------------------------------------------------ bounds
\* dial attempts made while the scope is live
MaxDials == 2
\* capacity of the events channel (make(chan Event, 64), scaled down so that a
\* full buffer is reached)
EventsCap == 2
\* frames read from the relay over the whole Stream call: enough to fill the
\* events channel and block on one more
MaxReads == EventsCap + 1
\* capacity of the errors channel
ErrsCap == 1

\* ------------------------------------------------------------- event model
\* A hex string is a value with a letter case; comparison under EqualFold
\* ignores the case.
Hex(v, uc) == [v |-> v, uc |-> uc]

EqualExact(a, b) == a = b

EqualFold(a, b) == a.v = b.v

\* The canonical payload [0, pubkey, created_at, kind, tags, content]; the
\* SHA-256 digest is taken as collision free, so the digest is the payload.
hashEventWithRelay(e) == <<0, e.PubKey, e.CreatedAt, e.Kind, e.Tags, e.Content, e.Relay>>

hashEventNoTags(e) == <<0, e.PubKey, e.CreatedAt, e.Kind, e.Content>>

hashEvent(e) == <<0, e.PubKey, e.CreatedAt, e.Kind, e.Tags, e.Content>>

NoHash == <<>>

\* Public keys: two valid x-only keys, one 32-byte value off the curve, one of
\* the wrong length, one that is not hex.
ValidPubKeys == {"pkA", "pkB"}

PubKeyHexOK(pk) == pk # "pkNotHex"

PubKeyLenOK(pk) == pk \in ValidPubKeys \cup {"pkOffCurve"}

PubKeyOnCurve(pk) == pk \in ValidPubKeys

\* A signature: form "ok" (64 bytes, parses), "badlen" or "nothex"; a well
\* formed one validates for exactly the key and the digest it was made with.
MkSig(form, signer, msg) == [form |-> form, signer |-> signer, msg |-> msg]

NoSig == MkSig("badlen", "", NoHash)

SchnorrVerify(sig, hash, pk) == sig.signer = pk /\ sig.msg = hash

Verify(e) ==
    IF ~EqualFold(Hex(hashEvent(e), FALSE), e.ID) THEN "event id mismatch"
    ELSE IF ~PubKeyHexOK(e.PubKey) THEN "pubkey decode"
    ELSE IF ~PubKeyLenOK(e.PubKey) THEN "invalid pubkey length"
    ELSE IF e.Sig.form = "nothex" THEN "signature decode"
    ELSE IF e.Sig.form # "ok" THEN "signature parse"
    ELSE IF ~PubKeyOnCurve(e.PubKey) THEN "pubkey parse"
    ELSE IF ~SchnorrVerify(e.Sig, hashEvent(e), e.PubKey)
         THEN "signature verification failed"
    ELSE "nil"

MkEvent(id, pk, at, kind, tags, content, sig, relay) ==
    [ID |-> id, PubKey |-> pk, CreatedAt |-> at, Kind |-> kind, Tags |-> tags,
     Content |-> content, Sig |-> sig, Relay |-> relay]

\* The zero value of Event (what decoding JSON null or {} leaves).
ZeroEvent == MkEvent(Hex(NoHash, FALSE), "", 0, 0, <<>>, "", NoSig, "")

\* An event as its author signed it.
Signed(pk, content) ==
    LET u == MkEvent(Hex(NoHash, FALSE), pk, 0, 1, <<>>, content, NoSig, "")
    IN  [u EXCEPT !.ID = Hex(hashEvent(u), FALSE),
                  !.Sig = MkSig("ok", pk, hashEvent(u))]

\* ------------------------------------------------------------- wire frames
\* A JSON element: a string, a boolean, an object (decoded as an event), a
\* number or null. A string is a text s, or the text of a hex digest h (then s
\* is "#").
Elem(t, s, h, b, e) == [t |-> t, s |-> s, h |-> h, b |-> b, e |-> e]

NoHex == Hex(NoHash, FALSE)

Str(s) == Elem("str", s, NoHex, FALSE, ZeroEvent)

HexStr(h) == Elem("str", "#", h, FALSE, ZeroEvent)

Bool(b) == Elem("bool", "", NoHex, b, ZeroEvent)

Obj(e) == Elem("obj", "", NoHex, FALSE, e)

Num == Elem("num", "", NoHex, FALSE, ZeroEvent)

Null == Elem("null", "", NoHex, FALSE, ZeroEvent)

\* A frame: json is whether the data unmarshals as a JSON array.
Frame(elems) == [json |-> TRUE, elems |-> elems]

NotJSON == [json |-> FALSE, elems |-> <<>>]

\* json.Unmarshal into a string: a JSON string decodes, null leaves the zero
\* value, anything else is an error.
DecodeString(el) ==
    IF el.t = "str" THEN [ok |-> TRUE, s |-> el.s, h |-> el.h]
    ELSE IF el.t = "null" THEN [ok |-> TRUE, s |-> "", h |-> NoHex]
    ELSE [ok |-> FALSE, s |-> "", h |-> NoHex]

\* json.Unmarshal into a bool: a JSON boolean decodes, null leaves false.
DecodeBool(el) ==
    IF el.t = "bool" THEN [ok |-> TRUE, b |-> el.b]
    ELSE IF el.t = "null" THEN [ok |-> TRUE, b |-> FALSE]
    ELSE [ok |-> FALSE, b |-> FALSE]

\* json.Unmarshal into an Event: an object decodes, null leaves the zero value.
DecodeEvent(el) ==
    IF el.t = "obj" THEN [ok |-> TRUE, e |-> el.e]
    ELSE IF el.t = "null" THEN [ok |-> TRUE, e |-> ZeroEvent]
    ELSE [ok |-> FALSE, e |-> ZeroEvent]

\* Subscription identifiers: 8 random bytes, hex encoded; the n-th draw is
\* taken as distinct from the earlier ones.
SubIDPool == <<"s1", "s2", "s3", "s4", "s5", "s6">>

sameSubID(n) == SubIDPool[1]

randomSubID(n) == SubIDPool[n]

\* The relay address stamped on a received event.
StampRelay(e, r) == [e EXCEPT !.Relay = r]

\* The dispatch of one inbound frame by the read loop: whether it yields an
\* event to deliver, and that event.
Skip == [deliver |-> FALSE, evt |-> ZeroEvent]

EventFrameSub(payload) == DecodeString(payload[2])

SubMatchesAny(recvSub, sub) == TRUE

SubMatches(recvSub, sub) == recvSub = sub

AcceptsUnverified(e) == TRUE

Accepts(e) == Verify(e) = "nil"

HandleEvent(payload, sub, r) ==
    IF Len(payload) < 3 THEN Skip
    ELSE IF ~EventFrameSub(payload).ok THEN Skip
    ELSE IF ~SubMatches(EventFrameSub(payload).s, sub) THEN Skip
    ELSE IF ~DecodeEvent(payload[3]).ok THEN Skip
    ELSE IF ~Accepts(DecodeEvent(payload[3]).e) THEN Skip
    ELSE [deliver |-> TRUE, evt |-> StampRelay(DecodeEvent(payload[3]).e, r)]

HandleFrame(f, sub, r) ==
    IF ~f.json THEN Skip
    ELSE IF Len(f.elems) = 0 THEN Skip
    ELSE IF ~DecodeString(f.elems[1]).ok THEN Skip
    ELSE IF DecodeString(f.elems[1]).s = "EVENT" THEN HandleEvent(f.elems, sub, r)
    ELSE IF DecodeString(f.elems[1]).s = "EOSE" THEN Skip
    ELSE IF DecodeString(f.elems[1]).s = "NOTICE" THEN Skip
    ELSE Skip

\* --------------------------------------------------------- Stream: inputs
Relays == {"wss://r1", "wss://r2"}

\* Events a relay may forward: a valid one, one whose id is not its hash, one
\* whose signature is over another digest.
GoodEvents == {Signed("pkA", "a")}

\* An event frame with the event as its third element.
Bare(s, e) == Frame(<<Str("EVENT"), Str(s), Obj(e)>>)

BadIDEvent == [Signed("pkA", "a") EXCEPT !.ID = Hex(hashEvent(Signed("pkA", "b")), FALSE)]

BadSigEvent == [Signed("pkA", "a") EXCEPT !.Sig = MkSig("ok", "pkA", hashEvent(Signed("pkA", "b")))]

RelayEvents == GoodEvents \cup {BadIDEvent, BadSigEvent}

\* Subscription identifiers a relay may put in a frame: those of this call's
\* connections and a foreign one.
FrameSubs == {SubIDPool[i] : i \in 1..MaxDials} \cup {"zz"}

InFrames ==
    {NotJSON, Frame(<<>>), Frame(<<Num>>), Frame(<<Str("PING")>>),
     Frame(<<Str("NOTICE"), Str("slow down")>>)}
    \cup {Frame(<<Str("EOSE"), Str(s)>>) : s \in FrameSubs}
    \cup {Frame(<<Str("EVENT"), Str(s)>>) : s \in FrameSubs}
    \cup {Frame(<<Str("EVENT"), n, Obj(e)>>) : n \in {Num, Null}, e \in GoodEvents}
    \cup {Frame(<<Str("EVENT"), Str(s), n>>) : s \in FrameSubs, n \in {Num, Null}}
    \cup {Bare(s, e) : s \in FrameSubs, e \in RelayEvents}
    \cup {Frame(<<Str("EVENT"), Str(s), Obj(e), Str("more")>>) : s \in FrameSubs, e \in GoodEvents}

\* ---------------------------------------------------------- Stream: state
\* ----------------------------------------------------------------- Filter
KindTextNote == 1

\* A *time.Time: nil, or a time as seconds and nanoseconds since the epoch.
Time(sec, nsec) == [nil |-> FALSE, sec |-> sec, nsec |-> nsec]

NilTime == [nil |-> TRUE, sec |-> 0, nsec |-> 0]

\* t.Unix(): the seconds, the nanoseconds dropped.
Unix(t) == t.sec

Filter(authors, kinds, since, until, limit) ==
    [Authors |-> authors, Kinds |-> kinds, Since |-> since, Until |-> until,
     Limit |-> limit]

\* payload := make(map[string]any); payload[k] = v
EmptyPayload == [k \in {} |-> 0]

Put(payload, k, v) == (k :> v) @@ payload

LimitNotNegative(f) == f.Limit >= 0

LimitSet(f) == f.Limit > 0

toRequest(f) ==
    LET p1 == IF Len(f.Authors) > 0 THEN Put(EmptyPayload, "authors", f.Authors)
              ELSE EmptyPayload
        p2 == IF Len(f.Kinds) > 0 THEN Put(p1, "kinds", f.Kinds) ELSE p1
        p3 == IF ~f.Since.nil THEN Put(p2, "since", Unix(f.Since)) ELSE p2
        p4 == IF ~f.Until.nil THEN Put(p3, "until", Unix(f.Until)) ELSE p3
    IN  IF LimitSet(f) THEN Put(p4, "limit", f.Limit) ELSE p4

\* ------------------------------------------------------------- the state
VARIABLES
    ev,           \* a SignEvent / Verify call sequence on one event
    flt,          \* a Filter.toRequest call
    post,         \* a run of the post service
    tl,           \* a run of the timeline service, with the channels Stream gave it
    duo,          \* two Stream calls and a Publish call on one Client
    pub,          \* the Publish call: position, connection, inputs, I/O log
    relay,        \* the relay address passed to Stream
    filter,       \* the Filter passed to Stream
    client,       \* the Client's readTimeout and backoff, in seconds
    timer,        \* the duration of c.wait's timer while it runs
    ctx,          \* ctx.Err(): "nil" while the scope is live
    pc,           \* position of the Stream goroutine
    conn,         \* the goroutine's connection: "none", "open", "closed"
    subN,         \* number of randomSubID draws so far
    subID,        \* runSubscription's subID
    err,          \* the goroutine's err
    pending,      \* the event runSubscription is delivering, with the frame it
                  \* came in and the subscription identifier of the REQ
    events,       \* the events channel's buffer
    errs,         \* the errors channel's buffer
    eventsCloses, \* close(events) calls
    errsCloses,   \* close(errs) calls
    sent,         \* frames written on the current connection
    received,     \* the consumer's receipts from events, each as <<connection, read>>
    dials,        \* dial attempts that ended while counted by MaxDials
    reads,        \* frames read
    hist          \* history: the steps since a transport failure (recov),
                  \* the reads that yielded a verified event (accepted), and
                  \* those given up on cancellation (abandoned)

vars == <<ev, flt, post, tl, duo, pub, relay, filter, client, timer, ctx, pc, conn, subN, subID,
          err, pending, events, errs,
          eventsCloses, errsCloses, sent, received, dials, reads, hist>>

\* The calls outside Stream and Publish, and their state when none is made.
helperVars == <<ev, flt, post, tl, duo>>

Idle == [pc |-> "idle"]

HelpersIdle == ev = Idle /\ flt = Idle /\ post = Idle /\ tl = Idle /\ duo = Idle

\* An event on its way to the consumer: the event, the connection it was
\* read on and the number of the read.
Item(e, c, n) == [evt |-> e, conn |-> c, seq |-> n]

\* The event being delivered, with the frame it came in and the subscription
\* identifier of the REQ sent on its connection.
Pending(it, f, reqSub) == [item |-> it, frame |-> f, reqSub |-> reqSub]

NoItem == Pending(Item(ZeroEvent, 0, 0), NotJSON, "")

WireFrame(tag, sub) == [tag |-> tag, sub |-> sub]

\* req := []any{"REQ", subID, filterCopy.toRequest()}
ReqFrame(sub, payload) == [tag |-> "REQ", sub |-> sub, filter |-> payload]

\* NewClient: the read timeout and the backoff, in seconds.
NewClient == [readTimeout |-> 30, backoff |-> 3]

\* No timer is running.
NoTimer == 0

\* time.NewTimer(d): the timer fires d after it is made.
NewTimer(d) == d

\* The interval the Stream loop passes to c.wait.
WaitArgReadTimeout(c) == c.readTimeout

WaitArg(c) == c.backoff

\* The arguments Stream is called with: the timeline's filter, which names
\* the kind only, on one relay, and a filter with every field set on another.
StreamArgs ==
    {[relay |-> "wss://r1", filter |-> Filter(<<>>, <<KindTextNote>>, NilTime, NilTime, 0)],
     [relay |-> "wss://r2",
      filter |-> Filter(<<"author1">>, <<KindTextNote>>, Time(5, 0), Time(900, 0), 42)]}

\* time.Now() when the n-th subscription starts: later than the since of the
\* caller's filters, later for a later subscription, and within its second.
TimeNow(n) == Time(100 + n, 7)

\* filterCopy := filter; filterCopy.Since = &now
KeepSince(f, now) == f

WithSince(f, now) == [f EXCEPT !.Since = now]

ErrVal(op, cause) == [op |-> op, cause |-> cause]

Live == ctx = "nil"

HistInit == [recov |-> <<>>, accepted |-> {}, abandoned |-> {}]

StreamInit ==
    /\ \E a \in StreamArgs : relay = a.relay /\ filter = a.filter
    /\ client = NewClient
    /\ timer = NoTimer
    /\ ctx = "nil"
    /\ pc = "top"
    /\ conn = "none"
    /\ subN = 0
    /\ subID = ""
    /\ err = "nil"
    /\ pending = NoItem
    /\ events = <<>>
    /\ errs = <<>>
    /\ eventsCloses = 0
    /\ errsCloses = 0
    /\ sent = <<>>
    /\ received = <<>>
    /\ dials = 0
    /\ reads = 0
    /\ hist = HistInit

\* ------------------------------------------------------- Stream: channels
\* emitError: a send that never blocks; the error is dropped when the buffer
\* is full.
emitErrorOffByOne(ch, e) == IF Len(ch) <= ErrsCap THEN Append(ch, e) ELSE ch

emitErrorKeepNewest(ch, e) == IF Len(ch) < ErrsCap THEN Append(ch, e) ELSE Append(Tail(ch), e)

emitError(ch, e) == IF Len(ch) < ErrsCap THEN Append(ch, e) ELSE ch

\* The send case of the delivery select: ready when the buffer has room.
SendReadyAlways(ch) == TRUE

SendReady(ch) == Len(ch) < EventsCap

ChanSendFront(ch, it) == <<it>> \o ch

ChanSend(ch, it) == Append(ch, it)

\* The ctx.Done() case of the delivery select.
DeliverNeverSeesDone == FALSE

DeliverSeesDone == ctx # "nil"

IsAnyError(e) == e # "nil"

\* errors.Is(err, context.Canceled)
IsCanceled(e) == e = "Canceled"

\* What conn.ReadMessage can end with while the read is pending: a frame, a
\* read error, or the read deadline. The connection does not hold ctx.
ReadOutcomes == {"frame", "net", "timeout"}

Log(h, step) == IF h.recov = <<>> THEN h ELSE [h EXCEPT !.recov = Append(@, step)]

\* ---------------------------------------------------- Stream: environment
\* The caller cancels the scope.
Cancel ==
    /\ Live
    /\ ctx' = "Canceled"
    /\ UNCHANGED <<helperVars, pub, relay, filter, client, timer,
                   pc, conn, subN, subID, err, pending, events, errs,
                   eventsCloses, errsCloses, sent, received, dials, reads, hist>>

\* The scope's deadline passes.
Expire ==
    /\ Live
    /\ ctx' = "DeadlineExceeded"
    /\ UNCHANGED <<helperVars, pub, relay, filter, client, timer,
                   pc, conn, subN, subID, err, pending, events, errs,
                   eventsCloses, errsCloses, sent, received, dials, reads, hist>>

\* The consumer receives from the events channel.
RecvEvent ==
    /\ Len(events) > 0
    /\ received' = Append(received, <<Head(events).conn, Head(events).seq>>)
    /\ events' = Tail(events)
    /\ UNCHANGED <<helperVars, pub, relay, filter, client, timer,
                   ctx, pc, conn, subN, subID, err, pending, errs,
                   eventsCloses, errsCloses, sent, dials, reads, hist>>

\* The consumer receives from the errors channel.
RecvError ==
    /\ Len(errs) > 0
    /\ errs' = Tail(errs)
    /\ UNCHANGED <<helperVars, pub, relay, filter, client, timer,
                   ctx, pc, conn, subN, subID, err, pending, events,
                   eventsCloses, errsCloses, sent, received, dials, reads, hist>>

\* ------------------------------------------------- Stream: the goroutine
\* if ctx.Err() != nil { return }
LoopNeverEnds == FALSE

LoopEnds == ~Live

\* for { if ctx.Err() != nil { return } ...
LoopTop ==
    /\ pc = "top"
    /\ pc' = IF LoopEnds THEN "deferErrs" ELSE "dial"
    /\ hist' = IF LoopEnds THEN hist ELSE Log(hist, "dial")
    /\ UNCHANGED <<helperVars, pub, relay, filter, client, timer,
                   ctx, conn, subN, subID, err, pending, events, errs,
                   eventsCloses, errsCloses, sent, received, dials, reads>>

\* DialContext returns a connection.
DialOK ==
    /\ pc = "dial"
    /\ dials < MaxDials
    /\ dials' = dials + 1
    /\ conn' = "open"
    /\ sent' = <<>>
    /\ err' = "nil"
    /\ pc' = "sub"
    /\ hist' = [hist EXCEPT !.recov = <<>>]
    /\ UNCHANGED <<helperVars, pub, relay, filter, client, timer,
                   ctx, subN, subID, pending, events, errs,
                   eventsCloses, errsCloses, received, reads>>

\* DialContext fails on the network.
DialFail ==
    /\ pc = "dial"
    /\ dials < MaxDials
    /\ dials' = dials + 1
    /\ err' = "net"
    /\ pc' = "emitDial"
    /\ hist' = [hist EXCEPT !.recov = <<>>]
    /\ UNCHANGED <<helperVars, pub, relay, filter, client, timer,
                   ctx, conn, subN, subID, pending, events, errs,
                   eventsCloses, errsCloses, sent, received, reads>>

\* DialContext returns because ctx is done.
DialCancelled ==
    /\ pc = "dial"
    /\ ~Live
    /\ err' = ctx
    /\ pc' = "emitDial"
    /\ hist' = [hist EXCEPT !.recov = <<>>]
    /\ UNCHANGED <<helperVars, pub, relay, filter, client, timer,
                   ctx, conn, subN, subID, pending, events, errs,
                   eventsCloses, errsCloses, sent, received, dials, reads>>

\* c.emitError(errs, fmt.Errorf("dial %s: %w", relay, err)), then c.wait
\* starts its timer.
EmitDialError ==
    /\ pc = "emitDial"
    /\ errs' = emitError(errs, ErrVal("dial", err))
    /\ pc' = "waitDial"
    /\ timer' = NewTimer(WaitArg(client))
    /\ UNCHANGED <<helperVars, pub, relay, filter, client,
                   ctx, conn, subN, subID, err, pending, events,
                   eventsCloses, errsCloses, sent, received, dials, reads, hist>>

\* c.wait: the timer fires; the deferred timer.Stop().
WaitTimer ==
    /\ pc \in {"waitDial", "waitRelay"}
    /\ pc' = "top"
    /\ err' = "nil"
    /\ hist' = Log(hist, "wait")
    /\ timer' = NoTimer
    /\ UNCHANGED <<helperVars, pub, relay, filter, client,
                   ctx, conn, subN, subID, pending, events, errs,
                   eventsCloses, errsCloses, sent, received, dials, reads>>

\* c.wait: ctx.Done() is ready; wait stops the timer and returns false, and
\* the goroutine returns.
WaitCancelled ==
    /\ pc \in {"waitDial", "waitRelay"}
    /\ ~Live
    /\ pc' = "deferErrs"
    /\ err' = "nil"
    /\ timer' = NoTimer
    /\ UNCHANGED <<helperVars, pub, relay, filter, client,
                   ctx, conn, subN, subID, pending, events, errs,
                   eventsCloses, errsCloses, sent, received, dials, reads, hist>>

\* runSubscription: draw subID, write the REQ frame.
SubscribeOK ==
    /\ pc = "sub"
    /\ subN' = subN + 1
    /\ subID' = randomSubID(subN + 1)
    /\ sent' = Append(sent, ReqFrame(subID', toRequest(WithSince(filter, TimeNow(subN + 1)))))
    /\ pc' = "rtop"
    /\ UNCHANGED <<helperVars, pub, relay, filter, client, timer,
                   ctx, conn, err, pending, events, errs,
                   eventsCloses, errsCloses, received, dials, reads, hist>>

\* runSubscription: the REQ write fails.
SubscribeFail ==
    /\ pc = "sub"
    /\ subN' = subN + 1
    /\ subID' = randomSubID(subN + 1)
    /\ err' = "net"
    /\ hist' = [hist EXCEPT !.recov = IF Live THEN <<"fail">> ELSE <<>>]
    /\ pc' = "connClose"
    /\ UNCHANGED <<helperVars, pub, relay, filter, client, timer,
                   ctx, conn, pending, events, errs,
                   eventsCloses, errsCloses, sent, received, dials, reads>>

\* select { case <-ctx.Done(): write CLOSE, return ctx.Err(); default: }
ReadLoopTop ==
    /\ pc = "rtop"
    /\ IF Live
       THEN /\ pc' = "read"
            /\ UNCHANGED <<sent, err>>
       ELSE /\ sent' = Append(sent, WireFrame("CLOSE", subID))
            /\ err' = ctx
            /\ pc' = "connClose"
    /\ UNCHANGED <<helperVars, pub, relay, filter, client, timer,
                   ctx, conn, subN, subID, pending, events, errs,
                   eventsCloses, errsCloses, received, dials, reads, hist>>

\* conn.ReadMessage returns a frame, which is dispatched.
ReadFrame ==
    /\ pc = "read"
    /\ "frame" \in ReadOutcomes
    /\ reads < MaxReads
    /\ \E f \in InFrames :
          LET h == HandleFrame(f, subID, relay) IN
          /\ reads' = reads + 1
          /\ IF h.deliver
             THEN /\ pending' = Pending(Item(h.evt, subN, reads + 1), f, sent[1].sub)
                  /\ hist' = [hist EXCEPT !.accepted = @ \cup {reads + 1}]
                  /\ pc' = "deliver"
             ELSE /\ pc' = "rtop"
                  /\ UNCHANGED <<pending, hist>>
    /\ UNCHANGED <<helperVars, pub, relay, filter, client, timer,
                   ctx, conn, subN, subID, err, events, errs,
                   eventsCloses, errsCloses, sent, received, dials>>

\* conn.ReadMessage returns an error: the connection failed, or the read
\* deadline passed.
ReadFail ==
    /\ pc = "read"
    /\ \E o \in ReadOutcomes \ {"frame"} : err' = o
    /\ hist' = [hist EXCEPT !.recov = IF Live THEN <<"fail">> ELSE <<>>]
    /\ pc' = "connClose"
    /\ UNCHANGED <<helperVars, pub, relay, filter, client, timer,
                   ctx, conn, subN, subID, pending, events, errs,
                   eventsCloses, errsCloses, sent, received, dials, reads>>

\* select { case events <- evt: ...
DeliverSend ==
    /\ pc = "deliver"
    /\ SendReady(events)
    /\ events' = ChanSend(events, pending.item)
    /\ pending' = NoItem
    /\ pc' = "rtop"
    /\ UNCHANGED <<helperVars, pub, relay, filter, client, timer,
                   ctx, conn, subN, subID, err, errs,
                   eventsCloses, errsCloses, sent, received, dials, reads, hist>>

\* ... case <-ctx.Done(): return ctx.Err() }
DeliverCancelled ==
    /\ pc = "deliver"
    /\ DeliverSeesDone
    /\ err' = ctx
    /\ hist' = [hist EXCEPT !.abandoned = @ \cup {pending.item.seq}]
    /\ pending' = NoItem
    /\ pc' = "connClose"
    /\ UNCHANGED <<helperVars, pub, relay, filter, client, timer,
                   ctx, conn, subN, subID, events, errs,
                   eventsCloses, errsCloses, sent, received, dials, reads>>

\* conn.Close()
ConnLeftOpen(c) == c

ConnClosed(c) == "closed"

\* conn.Close(), then the branch on runSubscription's error; subID and the
\* connection's writes go out of scope with runSubscription.
ConnClose ==
    /\ pc = "connClose"
    /\ conn' = ConnClosed(conn)
    /\ subID' = ""
    /\ sent' = <<>>
    /\ pc' = IF err = "nil" THEN "top"
             ELSE IF IsCanceled(err) THEN "deferErrs"
             ELSE "emitRelay"
    /\ err' = IF IsCanceled(err) THEN "nil" ELSE err
    /\ hist' = Log(hist, "close")
    /\ UNCHANGED <<helperVars, pub, relay, filter, client, timer,
                   ctx, subN, pending, events, errs,
                   eventsCloses, errsCloses, received, dials, reads>>

\* c.emitError(errs, fmt.Errorf("relay %s: %w", relay, err)), then c.wait
\* starts its timer.
EmitRelayError ==
    /\ pc = "emitRelay"
    /\ errs' = emitError(errs, ErrVal("relay", err))
    /\ hist' = Log(hist, "emit")
    /\ pc' = "waitRelay"
    /\ timer' = NewTimer(WaitArg(client))
    /\ UNCHANGED <<helperVars, pub, relay, filter, client,
                   ctx, conn, subN, subID, err, pending, events,
                   eventsCloses, errsCloses, sent, received, dials, reads>>

\* defer close(errs)
DeferCloseErrs ==
    /\ pc = "deferErrs"
    /\ errsCloses' = errsCloses + 1
    /\ pc' = "deferEvents"
    /\ UNCHANGED <<helperVars, pub, relay, filter, client, timer,
                   ctx, conn, subN, subID, err, pending, events, errs,
                   eventsCloses, sent, received, dials, reads, hist>>

\* defer close(events)
DeferCloseEvents ==
    /\ pc = "deferEvents"
    /\ eventsCloses' = eventsCloses + 1
    /\ pc' = "closed"
    /\ UNCHANGED <<helperVars, pub, relay, filter, client, timer,
                   ctx, conn, subN, subID, err, pending, events, errs,
                   errsCloses, sent, received, dials, reads, hist>>

\* The steps of the Stream goroutine.
Session ==
    \/ LoopTop \/ DialOK \/ DialFail \/ DialCancelled \/ EmitDialError
    \/ WaitTimer \/ WaitCancelled \/ SubscribeOK \/ SubscribeFail
    \/ ReadLoopTop \/ ReadFrame \/ ReadFail \/ DeliverSend \/ DeliverCancelled
    \/ ConnClose \/ EmitRelayError \/ DeferCloseErrs \/ DeferCloseEvents

\* ---------------------------------------------------------------- Publish
\* A Go string holding a text or a hex digest; "" is the empty string.
Text(s, h) == [s |-> s, h |-> h]

EmptyText == Text("", NoHex)

TextOfHex(h) == IF h.v = NoHash THEN EmptyText ELSE Text("#", h)

\* strings.EqualFold on two such strings.
TextEqualExact(a, b) == a = b

TextEqualFold(a, b) == a.s = b.s /\ EqualFold(a.h, b.h)

OkResult(id, ok, msg) == [EventID |-> id, OK |-> ok, Message |-> msg]

Parsed(e, res) == [err |-> e, res |-> res]

ParseError(e) == Parsed(e, OkResult(EmptyText, FALSE, ""))

parseOKMessage(data) ==
    IF ~data.json THEN ParseError("unmarshal OK payload")
    ELSE IF Len(data.elems) # 4 THEN ParseError("invalid OK message")
    ELSE IF ~DecodeString(data.elems[1]).ok THEN ParseError("decode OK type")
    ELSE IF DecodeString(data.elems[1]).s # "OK" THEN ParseError("unexpected message type")
    ELSE IF ~DecodeString(data.elems[2]).ok THEN ParseError("decode OK id")
    ELSE IF ~DecodeBool(data.elems[3]).ok THEN ParseError("decode OK flag")
    ELSE IF ~DecodeString(data.elems[4]).ok THEN ParseError("decode OK message")
    ELSE Parsed("nil",
                OkResult(Text(DecodeString(data.elems[2]).s, DecodeString(data.elems[2]).h),
                         DecodeBool(data.elems[3]).b,
                         DecodeString(data.elems[4]).s))

\* The error Publish returns: its kind, and the id and message it carries.
Ret(kind, id, msg) == [kind |-> kind, id |-> id, msg |-> msg]

NotReturned == Ret("none", EmptyText, "")

\* Lines 109-123: the verdict on the reply that was read.
PublishVerdict(data, evt) ==
    LET p == parseOKMessage(data) IN
    IF p.err # "nil" THEN Ret(p.err, EmptyText, "")
    ELSE IF ~p.res.OK THEN Ret("rejected", p.res.EventID, p.res.Message)
    ELSE IF p.res.EventID # EmptyText /\ ~TextEqualFold(p.res.EventID, TextOfHex(evt.ID))
         THEN Ret("mismatched id", p.res.EventID, "")
    ELSE Ret("nil", EmptyText, "")

\* Where Publish goes after a step failed: it returns.
AfterFailureRetry(step) == step

AfterFailure(step) == "done"

\* defer conn.Close()
DeferredClose(c) == IF c = "open" THEN "closed" ELSE c

PubState(pcv, c, e, d, rd, fr, data, ret, log) ==
    [pc |-> pcv, conn |-> c, evt |-> e, ctxDeadline |-> d, readDeadline |-> rd,
     frame |-> fr, data |-> data, ret |-> ret, log |-> log]

\* No Publish call.
PubIdle == PubState("idle", "none", ZeroEvent, FALSE, "none", NotJSON, NotJSON, NotReturned, <<>>)

\* The events given to Publish: a signed event, and the same with its id
\* written in upper case.
PubEvents ==
    {Signed("pkA", "a"), [Signed("pkA", "a") EXCEPT !.ID = Hex(hashEvent(Signed("pkA", "a")), TRUE)]}

OtherID == Hex(hashEvent(Signed("pkB", "b")), FALSE)

Messages == {"", "rate limited"}

OKFrame(id, flag, msg) == Frame(<<Str("OK"), id, flag, msg>>)

\* What the relay may answer to a published event e.
PubReplies(e) ==
    {OKFrame(id, Bool(b), Str(m)) :
        id \in {HexStr(Hex(e.ID.v, FALSE)), HexStr(Hex(e.ID.v, TRUE)), HexStr(OtherID),
                Str(""), Str("event-id")},
        b \in BOOLEAN, m \in Messages}
    \cup {NotJSON, Frame(<<>>),
          Frame(<<Str("OK"), HexStr(e.ID), Bool(TRUE)>>),
          Frame(<<Str("OK"), HexStr(e.ID), Bool(TRUE), Str(""), Str("more")>>),
          Frame(<<Str("EVENT"), HexStr(e.ID), Bool(TRUE), Str("")>>),
          OKFrame(Num, Bool(TRUE), Str("")), OKFrame(Null, Bool(TRUE), Str("")),
          OKFrame(HexStr(e.ID), Str("true"), Str("")), OKFrame(HexStr(e.ID), Null, Str("")),
          OKFrame(HexStr(e.ID), Bool(TRUE), Num), OKFrame(HexStr(e.ID), Bool(TRUE), Null),
          Frame(<<Num, HexStr(e.ID), Bool(TRUE), Str("")>>),
          Frame(<<Null, HexStr(e.ID), Bool(TRUE), Str("")>>)}

streamVars == <<relay, filter, client, timer, ctx, pc, conn, subN, subID,
                err, pending, events, errs,
                eventsCloses, errsCloses, sent, received, dials, reads, hist>>

PubInit ==
    /\ StreamInit
    /\ HelpersIdle
    /\ \E e \in PubEvents, d \in BOOLEAN :
          pub = PubState("dial", "none", e, d, "none", NotJSON, NotJSON, NotReturned, <<>>)

\* c.dialer.DialContext succeeds.
PubDialOK ==
    /\ pub.pc = "dial"
    /\ pub' = [pub EXCEPT !.pc = "write", !.conn = "open", !.log = Append(@, "dial")]
    /\ UNCHANGED <<helperVars, streamVars>>

\* c.dialer.DialContext fails: return before any connection exists.
PubDialFail ==
    /\ pub.pc = "dial"
    /\ pub' = [pub EXCEPT !.pc = AfterFailure("dial"), !.ret = Ret("dial", EmptyText, ""),
                          !.log = Append(@, "dial")]
    /\ UNCHANGED <<helperVars, streamVars>>

\* The read deadline Publish sets: the scope's deadline when it has one,
\* else time.Now().Add(c.readTimeout).
NoReadDeadline(hasDeadline) == "none"

ReadDeadline(hasDeadline) == IF hasDeadline THEN "ctx" ELSE "default"

\* conn.WriteJSON([]any{"EVENT", evt}) succeeds; the read deadline is set.
PubWriteOK ==
    /\ pub.pc = "write"
    /\ pub' = [pub EXCEPT !.pc = "read",
                          !.frame = Frame(<<Str("EVENT"), Obj(pub.evt)>>),
                          !.readDeadline = ReadDeadline(pub.ctxDeadline),
                          !.log = Append(@, "write")]
    /\ UNCHANGED <<helperVars, streamVars>>

\* conn.WriteJSON fails.
PubWriteFail ==
    /\ pub.pc = "write"
    /\ pub' = [pub EXCEPT !.pc = AfterFailure("write"), !.ret = Ret("write EVENT", EmptyText, ""),
                          !.conn = DeferredClose(@), !.log = Append(@, "write")]
    /\ UNCHANGED <<helperVars, streamVars>>

\* conn.ReadMessage returns the relay's reply.
PubReadData ==
    /\ pub.pc = "read"
    /\ \E data \in PubReplies(pub.evt) :
          pub' = [pub EXCEPT !.pc = "decide", !.data = data, !.log = Append(@, "read")]
    /\ UNCHANGED <<helperVars, streamVars>>

\* conn.ReadMessage returns because the read deadline has passed.
PubReadDeadline ==
    /\ pub.pc = "read"
    /\ pub.readDeadline # "none"
    /\ pub' = [pub EXCEPT !.pc = AfterFailure("read"), !.ret = Ret("read OK", EmptyText, ""),
                          !.conn = DeferredClose(@), !.log = Append(@, "read")]
    /\ UNCHANGED <<helperVars, streamVars>>

\* conn.ReadMessage fails on the connection.
PubReadFail ==
    /\ pub.pc = "read"
    /\ pub' = [pub EXCEPT !.pc = AfterFailure("read"), !.ret = Ret("read OK", EmptyText, ""),
                          !.conn = DeferredClose(@), !.log = Append(@, "read")]
    /\ UNCHANGED <<helperVars, streamVars>>

\* parseOKMessage and the checks on its result; Publish returns.
PubDecide ==
    /\ pub.pc = "decide"
    /\ pub' = [pub EXCEPT !.pc = "done", !.ret = PublishVerdict(pub.data, pub.evt),
                          !.conn = DeferredClose(@)]
    /\ UNCHANGED <<helperVars, streamVars>>

PubNext ==
    \/ PubDialOK \/ PubDialFail \/ PubWriteOK \/ PubWriteFail
    \/ PubReadData \/ PubReadDeadline \/ PubReadFail \/ PubDecide

PubSpec == PubInit /\ [][PubNext]_vars

\* A read deadline that is set passes, unless the read has ended before.
PubFairSpec == PubSpec /\ WF_vars(PubReadDeadline)

\* ----------------------------------------------------- SignEvent, Verify
\* len(privKey) must be this many bytes.
KeyLen == 32

\* A private key: its length in bytes and the scalar its bytes hold. The
\* scalar "zero" (all bytes zero, or the group order) is the one schnorr.Sign
\* refuses.
PrivKey(len, d) == [len |-> len, d |-> d]

\* The x-only public key of a scalar; the zero scalar gives the point at
\* infinity, whose 32 zero bytes are no curve point.
PubOf(d) ==
    IF d = "dA" THEN "pkA" ELSE IF d = "dB" THEN "pkB" ELSE "pkOffCurve"

PrivKeys ==
    {PrivKey(KeyLen, "dA"), PrivKey(KeyLen, "dB"), PrivKey(KeyLen, "zero"),
     PrivKey(0, "zero"), PrivKey(2, "dA"), PrivKey(KeyLen + 1, "dA")}

\* What SignEvent leaves: its error, the event, and the steps it made.
SignResult(e, evt, steps) == [err |-> e, evt |-> evt, steps |-> steps]

KeyLenAtMost(privKey) == privKey.len <= KeyLen

KeyLenOK(privKey) == privKey.len = KeyLen

SignEvent(e, privKey) ==
    IF ~KeyLenOK(privKey) THEN SignResult("invalid private key length", e, <<>>)
    ELSE LET hashed == [e EXCEPT !.ID = Hex(hashEvent(e), FALSE)] IN
         IF privKey.d = "zero" THEN SignResult("sign", hashed, <<"hash">>)
         ELSE SignResult("nil",
                         [hashed EXCEPT !.Sig = MkSig("ok", PubOf(privKey.d), hashEvent(e))],
                         <<"hash", "sign">>)

\* The events SignEvent and Verify are called on: every kind of pubkey, with
\* and without a tag, with no id, its own id in either letter case or another
\* event's id, and with no signature, one that is not hex, its author's, one
\* by another key or one over another digest.
EvPubKeys == {"pkA", "pkB", "pkOffCurve", "pkShort", "pkNotHex"}

EvTags == {<<>>, <<<<"e", "abcdef">>>>}

Unsigned(pk, tags, content) ==
    MkEvent(NoHex, pk, 0, KindTextNote, tags, content, NoSig, "")

Unsigneds == {Unsigned(pk, t, c) : pk \in EvPubKeys, t \in EvTags, c \in {"a", "b"}}

EvIDs(u) == {NoHex, Hex(hashEvent(u), FALSE), Hex(hashEvent(u), TRUE), OtherID}

EvSigs(u) ==
    {NoSig, MkSig("nothex", "", NoHash), MkSig("ok", "pkA", hashEvent(u)),
     MkSig("ok", "pkB", hashEvent(u)), MkSig("ok", "pkA", OtherID.v)}

EvInputs ==
    UNION {{[u EXCEPT !.ID = id, !.Sig = sg] : id \in EvIDs(u), sg \in EvSigs(u)} :
           u \in Unsigneds}

\* pc: "new", "signed", "resigned", "tampered", "stamped", "verified"; orig is the event before
\* SignEvent, held the event before a field was overwritten, via the position
\* Verify was called from.
EvState(pcv, evt, orig, key, serr, steps, held, field, via, verr) ==
    [pc |-> pcv, evt |-> evt, orig |-> orig, key |-> key, serr |-> serr, steps |-> steps,
     held |-> held, field |-> field, via |-> via, verr |-> verr]

NoKey == PrivKey(0, "zero")

EvInit ==
    /\ StreamInit
    /\ pub = PubIdle
    /\ flt = Idle
    /\ post = Idle
    /\ tl = Idle
    /\ duo = Idle
    /\ \E e \in EvInputs :
          ev = EvState("new", e, e, NoKey, "none", <<>>, e, "none", "none", "none")

\* SignEvent(&evt, privKey)
SignCall ==
    /\ ev.pc = "new"
    /\ \E k \in PrivKeys :
          LET r == SignEvent(ev.evt, k) IN
          ev' = [ev EXCEPT !.pc = "signed", !.evt = r.evt, !.key = k, !.serr = r.err,
                           !.steps = r.steps, !.held = r.evt]
    /\ UNCHANGED <<flt, post, tl, duo, pub, streamVars>>

\* The holder of an event overwrites one of id, pubkey, sig with another value.
Tamper ==
    /\ ev.pc \in {"new", "signed"}
    /\ ev.serr \in {"none", "nil"}
    /\ \/ \E id \in EvIDs(ev.evt) \ {ev.evt.ID} :
             ev' = [ev EXCEPT !.pc = "tampered", !.field = "id", !.evt.ID = id]
       \/ \E pk \in EvPubKeys \ {ev.evt.PubKey} :
             ev' = [ev EXCEPT !.pc = "tampered", !.field = "pubkey", !.evt.PubKey = pk]
       \/ \E sg \in EvSigs(ev.evt) \ {ev.evt.Sig} :
             ev' = [ev EXCEPT !.pc = "tampered", !.field = "sig", !.evt.Sig = sg]
    /\ UNCHANGED <<flt, post, tl, duo, pub, streamVars>>

\* SignEvent(&evt, privKey) again, on the signed event with the same key.
ResignCall ==
    /\ ev.pc = "signed"
    /\ ev.serr = "nil"
    /\ LET r == SignEvent(ev.evt, ev.key) IN
       ev' = [ev EXCEPT !.pc = "resigned", !.evt = r.evt, !.serr = r.err, !.steps = r.steps]
    /\ UNCHANGED <<flt, post, tl, duo, pub, streamVars>>

\* evt.Relay = relay, as the read loop does to an event it received.
Stamp ==
    /\ ev.pc \in {"new", "signed"}
    /\ ev.serr \in {"none", "nil"}
    /\ \E r \in Relays :
          ev' = [ev EXCEPT !.pc = "stamped", !.field = "origin", !.evt = StampRelay(@, r)]
    /\ UNCHANGED <<flt, post, tl, duo, pub, streamVars>>

\* evt.Verify()
VerifyCall ==
    /\ ev.pc \in {"new", "signed", "tampered", "stamped"}
    /\ ev' = [ev EXCEPT !.pc = "verified", !.via = ev.pc, !.verr = Verify(ev.evt)]
    /\ UNCHANGED <<flt, post, tl, duo, pub, streamVars>>

EvNext == SignCall \/ ResignCall \/ Tamper \/ Stamp \/ VerifyCall

EvSpec == EvInit /\ [][EvNext]_vars

\* ------------------------------------------------ Filter.toRequest calls
\* The filters toRequest is called on: nil or empty, one and two authors and
\* kinds; no bound, the epoch, a time within the epoch's second, a later and
\* an earlier time; negative, zero and positive limits.
FltAuthors == {<<>>, <<"author1">>, <<"author1", "author2">>}

FltKinds == {<<>>, <<KindTextNote>>, <<0, KindTextNote>>}

FltTimes == {NilTime, Time(0, 0), Time(0, 5), Time(100, 0), Time(-1, 0)}

FltLimits == {-1, 0, 1, 42}

Filters ==
    {Filter(a, k, s, u, l) :
        a \in FltAuthors, k \in FltKinds, s \in FltTimes, u \in FltTimes, l \in FltLimits}

FltState(pcv, f, out) == [pc |-> pcv, f |-> f, out |-> out]

FltInit ==
    /\ StreamInit
    /\ pub = PubIdle
    /\ ev = Idle
    /\ post = Idle
    /\ tl = Idle
    /\ duo = Idle
    /\ \E f \in Filters : flt = FltState("new", f, EmptyPayload)

\* f.toRequest()
ToRequest ==
    /\ flt.pc = "new"
    /\ flt' = [flt EXCEPT !.pc = "done", !.out = toRequest(flt.f)]
    /\ UNCHANGED <<ev, post, tl, duo, pub, streamVars>>

FltNext == ToRequest

FltSpec == FltInit /\ [][FltNext]_vars

\* --------------------------------------------------- timeline service: Run
\* The sends the client makes on each of the two channels it returned, and
\* the receives counted on a closed channel.
MaxSends == 2

\* A channel Stream returned: what is buffered, and whether it is closed.
Chan(buf, closed) == [buf |-> buf, closed |-> closed]

\* A receive from the channel is ready: a value is buffered or it is closed.
RecvReady(ch) == ch.buf # <<>> \/ ch.closed

\* The error values the client sends.
TlErrors == {"nil", "Canceled", "net"}

\* The requests: no relay, one, two.
TlRelays == {<<>>, <<"wss://r1">>, <<"wss://r2", "wss://r1">>}

\* One call of client.Stream.
StreamCall(r, f) == [relay |-> r, filter |-> f]

\* Run's variable for a channel it has seen closed: events = nil, errs = nil.
KeptAfterClose == "chan"

NilAfterClose == "nil"

\* if err == nil || errors.Is(err, context.Canceled) { continue }
Ignored(e) == e = "nil" \/ IsCanceled(e)

\* A run on the request's relays, before its first step. events and errs are
\* Run's variables ("chan" or "nil"), evq and erq the channels behind them;
\* done is ctx.Done(); calls are the calls of client.Stream, out the lines
\* written, warns the errors logged; evSends and erSends count the client's
\* sends, evNotOK and erNotOK the receives that found the channel closed.
TlNew(relays) ==
    [pc |-> "start", relays |-> relays, done |-> FALSE, events |-> "chan", errs |-> "chan",
     evq |-> Chan(<<>>, FALSE), erq |-> Chan(<<>>, FALSE), calls |-> <<>>, ret |-> "running",
     out |-> 0, warns |-> <<>>, evSends |-> 0, erSends |-> 0, evNotOK |-> 0, erNotOK |-> 0]

TlInit ==
    /\ StreamInit
    /\ pub = PubIdle
    /\ ev = Idle
    /\ flt = Idle
    /\ post = Idle
    /\ duo = Idle
    /\ \E rs \in TlRelays : tl = TlNew(rs)

\* if len(req.Relays) == 0 { return errors.New("relay is required") };
\* events, errs := s.client.Stream(ctx, req.Relays[0], filter)
TlStart ==
    /\ tl.pc = "start"
    /\ tl' = IF Len(tl.relays) = 0
             THEN [tl EXCEPT !.pc = "done", !.ret = "relay is required"]
             ELSE [tl EXCEPT !.pc = "select",
                             !.calls = Append(@, StreamCall(tl.relays[1],
                                 Filter(<<>>, <<KindTextNote>>, NilTime, NilTime, 0)))]
    /\ UNCHANGED <<ev, flt, post, duo, pub, streamVars>>

\* case <-ctx.Done(): return nil
TlCtxDone ==
    /\ tl.pc = "select"
    /\ tl.done
    /\ tl' = [tl EXCEPT !.pc = "done", !.ret = "nil"]
    /\ UNCHANGED <<ev, flt, post, duo, pub, streamVars>>

\* case evt, ok := <-events with ok: renderPlainEvent writes the line.
TlEventOK ==
    /\ tl.pc = "select"
    /\ tl.events = "chan"
    /\ tl.evq.buf # <<>>
    /\ tl' = [tl EXCEPT !.evq.buf = Tail(@), !.out = @ + 1]
    /\ UNCHANGED <<ev, flt, post, duo, pub, streamVars>>

\* case evt, ok := <-events with ok: the write fails and Run returns the error.
TlEventWriteFail ==
    /\ tl.pc = "select"
    /\ tl.events = "chan"
    /\ tl.evq.buf # <<>>
    /\ tl' = [tl EXCEPT !.evq.buf = Tail(@), !.pc = "done", !.ret = "write"]
    /\ UNCHANGED <<ev, flt, post, duo, pub, streamVars>>

\* case evt, ok := <-events with !ok
TlEventsClosed ==
    /\ tl.pc = "select"
    /\ tl.events = "chan"
    /\ tl.evq.buf = <<>>
    /\ tl.evq.closed
    /\ tl.evNotOK < MaxSends
    /\ tl' = IF tl.errs = "nil"
             THEN [tl EXCEPT !.events = NilAfterClose, !.evNotOK = @ + 1,
                             !.pc = "done", !.ret = "nil"]
             ELSE [tl EXCEPT !.events = NilAfterClose, !.evNotOK = @ + 1]
    /\ UNCHANGED <<ev, flt, post, duo, pub, streamVars>>

\* case err, ok := <-errs with ok: continue, or log the warning.
TlError ==
    /\ tl.pc = "select"
    /\ tl.errs = "chan"
    /\ tl.erq.buf # <<>>
    /\ tl' = [tl EXCEPT !.erq.buf = Tail(@),
                        !.warns = IF Ignored(Head(tl.erq.buf)) THEN @
                                  ELSE Append(@, Head(tl.erq.buf))]
    /\ UNCHANGED <<ev, flt, post, duo, pub, streamVars>>

\* case err, ok := <-errs with !ok
TlErrsClosed ==
    /\ tl.pc = "select"
    /\ tl.errs = "chan"
    /\ tl.erq.buf = <<>>
    /\ tl.erq.closed
    /\ tl.erNotOK < MaxSends
    /\ tl' = IF tl.events = "nil"
             THEN [tl EXCEPT !.errs = NilAfterClose, !.erNotOK = @ + 1,
                             !.pc = "done", !.ret = "nil"]
             ELSE [tl EXCEPT !.errs = NilAfterClose, !.erNotOK = @ + 1]
    /\ UNCHANGED <<ev, flt, post, duo, pub, streamVars>>

\* The steps of Run.
TlRun ==
    \/ TlStart \/ TlCtxDone \/ TlEventOK \/ TlEventWriteFail \/ TlEventsClosed
    \/ TlError \/ TlErrsClosed

\* The client behind Stream sends an event.
TlSendEvent ==
    /\ tl.pc = "select"
    /\ ~tl.evq.closed
    /\ tl.evSends < MaxSends
    /\ tl' = [tl EXCEPT !.evq.buf = Append(@, "event"), !.evSends = @ + 1]
    /\ UNCHANGED <<ev, flt, post, duo, pub, streamVars>>

\* The client behind Stream sends an error value.
TlSendError ==
    /\ tl.pc = "select"
    /\ ~tl.erq.closed
    /\ tl.erSends < MaxSends
    /\ \E e \in TlErrors : tl' = [tl EXCEPT !.erq.buf = Append(@, e), !.erSends = @ + 1]
    /\ UNCHANGED <<ev, flt, post, duo, pub, streamVars>>

\* The client closes the events channel.
TlCloseEvents ==
    /\ tl.pc = "select"
    /\ ~tl.evq.closed
    /\ tl' = [tl EXCEPT !.evq.closed = TRUE]
    /\ UNCHANGED <<ev, flt, post, duo, pub, streamVars>>

\* The client closes the errors channel.
TlCloseErrs ==
    /\ tl.pc = "select"
    /\ ~tl.erq.closed
    /\ tl' = [tl EXCEPT !.erq.closed = TRUE]
    /\ UNCHANGED <<ev, flt, post, duo, pub, streamVars>>

\* The scope ends.
TlCancel ==
    /\ tl.pc \in {"start", "select"}
    /\ ~tl.done
    /\ tl' = [tl EXCEPT !.done = TRUE]
    /\ UNCHANGED <<ev, flt, post, duo, pub, streamVars>>

TlNext ==
    \/ TlRun
    \/ TlSendEvent \/ TlSendError \/ TlCloseEvents \/ TlCloseErrs \/ TlCancel

TlSpec == TlInit /\ [][TlNext]_vars

\* ------------------------------------------------- post service: Run
\* A string is a sequence of pieces: white space characters and runs of other
\* characters.
Spaces == {" ", "\n"}

RECURSIVE TrimLeft(_)
TrimLeft(s) ==
    IF s # <<>> /\ Head(s) \in Spaces THEN TrimLeft(Tail(s)) ELSE s

RECURSIVE TrimRight(_)
TrimRight(s) ==
    IF s # <<>> /\ s[Len(s)] \in Spaces THEN TrimRight(SubSeq(s, 1, Len(s) - 1)) ELSE s

\* strings.TrimSpace
TrimSpace(s) == TrimRight(TrimLeft(s))

Request(r, content, replyTo) == [Relay |-> r, Content |-> content, ReplyTo |-> replyTo]

\* bech32.Decode and convertBits(data, 5, 8, false) on a string: whether it
\* decodes, its human-readable part, whether its padding converts, and the
\* bytes it carries.
Bech32(ok, hrp, padOK, key) == [ok |-> ok, hrp |-> hrp, padOK |-> padOK, key |-> key]

Bech32Decode(str) ==
    IF str = <<"nsec1dA">> THEN Bech32(TRUE, "nsec", TRUE, PrivKey(KeyLen, "dA"))
    ELSE IF str = <<"nsec1dB">> THEN Bech32(TRUE, "nsec", TRUE, PrivKey(KeyLen, "dB"))
    ELSE IF str = <<"nsec1zero">> THEN Bech32(TRUE, "nsec", TRUE, PrivKey(KeyLen, "zero"))
    ELSE IF str = <<"nsec1short">> THEN Bech32(TRUE, "nsec", TRUE, PrivKey(KeyLen - 1, "dA"))
    ELSE IF str = <<"nsec1badpad">> THEN Bech32(TRUE, "nsec", FALSE, PrivKey(KeyLen, "dA"))
    ELSE IF str = <<"npub1dA">> THEN Bech32(TRUE, "npub", TRUE, PrivKey(KeyLen, "dA"))
    ELSE Bech32(FALSE, "", FALSE, NoKey)

Keys(e, priv, pk) == [err |-> e, priv |-> priv, pub |-> pk]

decodeNsec(nsec) ==
    LET b == Bech32Decode(nsec) IN
    IF ~b.ok THEN Keys("bech32", NoKey, "")
    ELSE IF b.hrp # "nsec" THEN Keys("unexpected HRP", NoKey, "")
    ELSE IF ~b.padOK THEN Keys("padding", NoKey, "")
    ELSE IF b.key.len # KeyLen THEN Keys("unexpected nsec length", NoKey, "")
    ELSE Keys("nil", b.key, "")

derivePubKeyHex(priv) ==
    IF priv.len # KeyLen THEN Keys("invalid private key length", priv, "")
    ELSE Keys("nil", priv, PubOf(priv.d))

\* env is the value of NOSTR_NSEC ("" when unset).
loadKeysFromEnv(env) ==
    IF TrimSpace(env) = <<>> THEN Keys("NOSTR_NSEC is not set", NoKey, "")
    ELSE IF decodeNsec(TrimSpace(env)).err # "nil" THEN Keys("decode NOSTR_NSEC", NoKey, "")
    ELSE derivePubKeyHex(decodeNsec(TrimSpace(env)).priv)

RelayEmpty(req) == req.Relay = <<>>

RelayMissing(req) == TrimSpace(req.Relay) = <<>>

RawContent(req) == req.Content

PostContent(req) == TrimSpace(req.Content)

ReplyTags(req) == IF req.ReplyTo # "" THEN <<<<"e", req.ReplyTo>>>> ELSE <<>>

\* The event Run builds before signing.
NewEvent(pk, now, req) ==
    MkEvent(NoHex, pk, now, KindTextNote, ReplyTags(req), PostContent(req), NoSig, "")

\* One call of client.Publish.
PublishCall(r, evt) == [relay |-> r, evt |-> evt]

\* The line written on success: the first 8 characters of the id, the relay.
PublishedLine(id, r) == [text |-> "published", id |-> id, chars |-> 8, relay |-> r]

\* pc: "new", "publish", "write", "done"; ret is Run's error; log the steps made.
PostState(pcv, req, env, now, evt, calls, out, ret, log) ==
    [pc |-> pcv, req |-> req, env |-> env, now |-> now, evt |-> evt, calls |-> calls,
     out |-> out, ret |-> ret, log |-> log]

PostRelays == {<<>>, <<" ">>, <<"wss://r1">>, <<" ", "wss://r1">>}

PostContents == {<<>>, <<" ", "\n">>, <<"hello">>, <<" ", "hello", " ", "nostr", "\n">>}

PostReplyTos == {"", "abcdef"}

PostEnvs ==
    {<<>>, <<" ">>, <<"invalid">>, <<"nsec1dA">>, <<" ", "nsec1dB", "\n">>, <<"nsec1zero">>,
     <<"nsec1short">>, <<"nsec1badpad">>, <<"npub1dA">>, <<"nsec1dA", " ", "nsec1dA">>}

PostNows == {1, 2}

PostInit ==
    /\ StreamInit
    /\ pub = PubIdle
    /\ ev = Idle
    /\ flt = Idle
    /\ tl = Idle
    /\ duo = Idle
    /\ \E r \in PostRelays, c \in PostContents, t \in PostReplyTos, e \in PostEnvs,
          n \in PostNows :
          post = PostState("new", Request(r, c, t), e, n, ZeroEvent, <<>>, <<>>, "none", <<>>)

\* Run up to the call of client.Publish: the checks of the request, the keys
\* from the environment, the event and its signature.
PostPrepare ==
    /\ post.pc = "new"
    /\ post' =
          IF RelayMissing(post.req) THEN [post EXCEPT !.pc = "done", !.ret = "relay is required"]
          ELSE IF PostContent(post.req) = <<>>
               THEN [post EXCEPT !.pc = "done", !.ret = "content is empty"]
          ELSE IF loadKeysFromEnv(post.env).err # "nil"
               THEN [post EXCEPT !.pc = "done", !.ret = loadKeysFromEnv(post.env).err]
          ELSE LET k == loadKeysFromEnv(post.env)
                   r == SignEvent(NewEvent(k.pub, post.now, post.req), k.priv)
               IN  IF r.err # "nil"
                   THEN [post EXCEPT !.pc = "done", !.ret = "sign event", !.evt = r.evt,
                                     !.log = <<"sign">>]
                   ELSE [post EXCEPT !.pc = "publish", !.evt = r.evt, !.log = <<"sign">>]
    /\ UNCHANGED <<ev, flt, tl, duo, pub, streamVars>>

\* s.client.Publish(ctx, req.Relay, evt) returns nil.
PostPublishOK ==
    /\ post.pc = "publish"
    /\ post' = [post EXCEPT !.pc = "write",
                            !.calls = Append(@, PublishCall(post.req.Relay, post.evt)),
                            !.log = Append(@, "publish")]
    /\ UNCHANGED <<ev, flt, tl, duo, pub, streamVars>>

\* s.client.Publish returns an error, which Run returns.
PostPublishFail ==
    /\ post.pc = "publish"
    /\ post' = [post EXCEPT !.pc = "done", !.ret = "publish failed",
                            !.calls = Append(@, PublishCall(post.req.Relay, post.evt)),
                            !.log = Append(@, "publish")]
    /\ UNCHANGED <<ev, flt, tl, duo, pub, streamVars>>

\* fmt.Fprintf(w, "published: id:%s relay:%s\n", ...) succeeds; Run returns nil.
PostWriteOK ==
    /\ post.pc = "write"
    /\ post' = [post EXCEPT !.pc = "done", !.ret = "nil",
                            !.out = Append(@, PublishedLine(post.evt.ID, post.req.Relay)),
                            !.log = Append(@, "write")]
    /\ UNCHANGED <<ev, flt, tl, duo, pub, streamVars>>

\* fmt.Fprintf fails, and Run returns its error.
PostWriteFail ==
    /\ post.pc = "write"
    /\ post' = [post EXCEPT !.pc = "done", !.ret = "write", !.log = Append(@, "write")]
    /\ UNCHANGED <<ev, flt, tl, duo, pub, streamVars>>

PostNext ==
    \/ PostPrepare \/ PostPublishOK \/ PostPublishFail \/ PostWriteOK \/ PostWriteFail

PostSpec == PostInit /\ [][PostNext]_vars

\* ------------------------------ two Stream calls and a Publish on one Client
\* The dial attempts and reads one Stream call makes.
MaxOps == 3

DuoCalls == {1, 2}

\* The relay address each call is given.
DuoRelay(i) == IF i = 1 THEN "wss://r1" ELSE "wss://r2"

\* events := make(chan Event, 64); errs := make(chan error, 1): the channel
\* pair call i makes and returns.
SharedChans(i) == 1

OwnChans(i) == i

\* The connection a DialContext returns: a new one at every call, named by
\* who dialed (a Stream call, or 0 for Publish) and by the number of the dial.
DuoConn(who, n) == [by |-> who, n |-> n]

NoDuoConn == DuoConn(0, 0)

\* A channel pair: the two buffers, and whether the pair has been closed.
ChanPair(evs, ers, closed) == [events |-> evs, errs |-> ers, closed |-> closed]

\* What a call's errors say: the operation and the relay address.
DuoErr(op, r) == [op |-> op, relay |-> r]

\* The locals of one Stream call: its position, its scope, its connection and
\* whether that is open, runSubscription's subID, the event being delivered,
\* and the dials and reads made.
DuoCall(pcv, c, cn, open, sub, pend, ops) ==
    [pc |-> pcv, ctx |-> c, conn |-> cn, open |-> open, sub |-> sub, pending |-> pend,
     ops |-> ops]

NoPending == Item(ZeroEvent, NoDuoConn, 0)

DuoInit ==
    /\ StreamInit
    /\ relay = DuoRelay(1)
    /\ pub = PubIdle
    /\ ev = Idle
    /\ flt = Idle
    /\ post = Idle
    /\ tl = Idle
    /\ duo = [call |-> [i \in DuoCalls |-> DuoCall("top", "nil", NoDuoConn, FALSE, "", NoPending, 0)],
              chans |-> [k \in DuoCalls |-> ChanPair(<<>>, <<>>, FALSE)],
              pub |-> [pc |-> "idle", conn |-> NoDuoConn]]

\* The deferred close(errs) and close(events) of call i.
DuoClosed(chans, i) == [chans EXCEPT ![OwnChans(i)].closed = TRUE]

\* c.emitError(errs, ...) of call i.
DuoEmitted(chans, i, op) ==
    [chans EXCEPT ![OwnChans(i)].errs = emitError(@, DuoErr(op, DuoRelay(i)))]

\* if ctx.Err() != nil { return }
DuoLoopTop(i) ==
    /\ duo.call[i].pc = "top"
    /\ duo' = IF duo.call[i].ctx # "nil"
              THEN [duo EXCEPT !.call[i].pc = "closed", !.chans = DuoClosed(@, i)]
              ELSE [duo EXCEPT !.call[i].pc = "dial"]
    /\ UNCHANGED <<ev, flt, post, tl, pub, streamVars>>

\* DialContext returns a connection.
DuoDialOK(i) ==
    /\ duo.call[i].pc = "dial"
    /\ duo.call[i].ops < MaxOps
    /\ duo' = [duo EXCEPT !.call[i].pc = "sub", !.call[i].ops = @ + 1,
                          !.call[i].conn = DuoConn(i, duo.call[i].ops + 1),
                          !.call[i].open = TRUE]
    /\ UNCHANGED <<ev, flt, post, tl, pub, streamVars>>

\* DialContext fails; the error is emitted and the backoff wait starts.
DuoDialFail(i) ==
    /\ duo.call[i].pc = "dial"
    /\ duo.call[i].ops < MaxOps
    /\ duo' = [duo EXCEPT !.call[i].pc = "wait", !.call[i].ops = @ + 1,
                          !.chans = DuoEmitted(@, i, "dial")]
    /\ UNCHANGED <<ev, flt, post, tl, pub, streamVars>>

\* c.wait: the timer fires.
DuoWaitTimer(i) ==
    /\ duo.call[i].pc = "wait"
    /\ duo' = [duo EXCEPT !.call[i].pc = "top"]
    /\ UNCHANGED <<ev, flt, post, tl, pub, streamVars>>

\* c.wait: ctx.Done() is ready; Stream's goroutine returns.
DuoWaitCancelled(i) ==
    /\ duo.call[i].pc = "wait"
    /\ duo.call[i].ctx # "nil"
    /\ duo' = [duo EXCEPT !.call[i].pc = "closed", !.chans = DuoClosed(@, i)]
    /\ UNCHANGED <<ev, flt, post, tl, pub, streamVars>>

\* runSubscription draws its subID and writes the REQ frame.
DuoSubscribe(i) ==
    /\ duo.call[i].pc = "sub"
    /\ duo' = [duo EXCEPT !.call[i].pc = "read",
                          !.call[i].sub = randomSubID(duo.call[i].ops)]
    /\ UNCHANGED <<ev, flt, post, tl, pub, streamVars>>

\* The REQ write or a read fails: conn.Close(), the error is emitted and the
\* backoff wait starts.
DuoFail(i) ==
    /\ duo.call[i].pc \in {"sub", "read"}
    /\ duo.call[i].ops < MaxOps
    /\ duo' = [duo EXCEPT !.call[i].pc = "wait", !.call[i].ops = @ + 1,
                          !.call[i].open = FALSE, !.call[i].sub = "",
                          !.chans = DuoEmitted(@, i, "relay")]
    /\ UNCHANGED <<ev, flt, post, tl, pub, streamVars>>

\* The read loop sees ctx.Done(): CLOSE is written, runSubscription returns
\* ctx.Err(), Stream closes the connection and returns.
DuoReadCancelled(i) ==
    /\ duo.call[i].pc = "read"
    /\ duo.call[i].ctx # "nil"
    /\ duo' = [duo EXCEPT !.call[i].pc = "closed", !.call[i].open = FALSE,
                          !.call[i].sub = "", !.chans = DuoClosed(@, i)]
    /\ UNCHANGED <<ev, flt, post, tl, pub, streamVars>>

\* A verified EVENT frame with the call's subID is read on the call's
\* connection, and the event is stamped with the call's relay.
DuoRead(i) ==
    /\ duo.call[i].pc = "read"
    /\ duo.call[i].ops < MaxOps
    /\ duo' = [duo EXCEPT !.call[i].pc = "deliver", !.call[i].ops = @ + 1,
                          !.call[i].pending =
                              Item(StampRelay(Signed("pkA", "a"), DuoRelay(i)),
                                   duo.call[i].conn, duo.call[i].ops + 1)]
    /\ UNCHANGED <<ev, flt, post, tl, pub, streamVars>>

\* select { case events <- evt: ...
DuoDeliver(i) ==
    /\ duo.call[i].pc = "deliver"
    /\ SendReady(duo.chans[OwnChans(i)].events)
    /\ duo' = [duo EXCEPT !.call[i].pc = "read", !.call[i].pending = NoPending,
                          !.chans[OwnChans(i)].events = ChanSend(@, duo.call[i].pending)]
    /\ UNCHANGED <<ev, flt, post, tl, pub, streamVars>>

\* ... case <-ctx.Done(): return ctx.Err() }; Stream closes the connection
\* and returns.
DuoDeliverCancelled(i) ==
    /\ duo.call[i].pc = "deliver"
    /\ duo.call[i].ctx # "nil"
    /\ duo' = [duo EXCEPT !.call[i].pc = "closed", !.call[i].open = FALSE,
                          !.call[i].sub = "", !.call[i].pending = NoPending,
                          !.chans = DuoClosed(@, i)]
    /\ UNCHANGED <<ev, flt, post, tl, pub, streamVars>>

\* The caller of call i cancels its scope.
DuoCancel(i) ==
    /\ duo.call[i].ctx = "nil"
    /\ duo.call[i].pc # "closed"
    /\ duo' = [duo EXCEPT !.call[i].ctx = "Canceled"]
    /\ UNCHANGED <<ev, flt, post, tl, pub, streamVars>>

\* The consumer of pair k receives an event.
DuoRecvEvent(k) ==
    /\ duo.chans[k].events # <<>>
    /\ duo' = [duo EXCEPT !.chans[k].events = Tail(@)]
    /\ UNCHANGED <<ev, flt, post, tl, pub, streamVars>>

\* The consumer of pair k receives an error.
DuoRecvError(k) ==
    /\ duo.chans[k].errs # <<>>
    /\ duo' = [duo EXCEPT !.chans[k].errs = Tail(@)]
    /\ UNCHANGED <<ev, flt, post, tl, pub, streamVars>>

\* Publish: c.dialer.DialContext succeeds.
DuoPubDial ==
    /\ duo.pub.pc = "idle"
    /\ duo' = [duo EXCEPT !.pub.pc = "open", !.pub.conn = DuoConn(0, 1)]
    /\ UNCHANGED <<ev, flt, post, tl, pub, streamVars>>

\* Publish returns; defer conn.Close().
DuoPubReturn ==
    /\ duo.pub.pc = "open"
    /\ duo' = [duo EXCEPT !.pub.pc = "done"]
    /\ UNCHANGED <<ev, flt, post, tl, pub, streamVars>>

DuoNext ==
    \/ \E i \in DuoCalls :
          \/ DuoLoopTop(i) \/ DuoDialOK(i) \/ DuoDialFail(i) \/ DuoWaitTimer(i)
          \/ DuoWaitCancelled(i) \/ DuoSubscribe(i) \/ DuoFail(i) \/ DuoReadCancelled(i)
          \/ DuoRead(i) \/ DuoDeliver(i) \/ DuoDeliverCancelled(i) \/ DuoCancel(i)
          \/ DuoRecvEvent(i) \/ DuoRecvError(i)
    \/ DuoPubDial \/ DuoPubReturn

DuoSpec == DuoInit /\ [][DuoNext]_vars

Init == StreamInit /\ HelpersIdle /\ pub = PubIdle

Next == Session \/ Cancel \/ Expire \/ RecvEvent \/ RecvError

Spec == Init /\ [][Next]_vars

\* The goroutine is scheduled, and a pending dial, read or wait ends. The
\* relay address and the filter play no part in the control flow: the
\* timeline's call is taken.
FairInit == Init /\ relay = "wss://r1"

FairSpec == FairInit /\ [][Next]_vars /\ WF_vars(Session)

\* The same with a consumer that never receives from the errors channel.
DeafNext == Session \/ Cancel \/ Expire \/ RecvEvent

DeafSpec == FairInit /\ [][DeafNext]_vars /\ WF_vars(Session)

\* ------------------------------------------------------------ properties
Range(q) == {q[i] : i \in 1..Len(q)}

ScopeErrs == {"Canceled", "DeadlineExceeded"}

\* C1: an output channel of Stream is closed only when the caller's scope has
\* ended, whatever dial, write, read and frame failures came before.
C1_ClosedOnlyAfterScopeEnds ==
    (eventsCloses > 0 \/ errsCloses > 0 \/ pc \in {"deferErrs", "deferEvents", "closed"})
        => ~Live

\* C1 witness: both channels closed after a second dial and a read.
C1_Witness == eventsCloses = 1 /\ errsCloses = 1 /\ dials = 2 /\ reads >= 1

\* C2: once the scope has ended the session reaches Closed, and at Closed both
\* channels have been closed, each exactly once.
C2_EndedScopeLeadsToClosed ==
    /\ (~Live) ~> (pc = "closed")
    /\ [](pc = "closed" => eventsCloses = 1 /\ errsCloses = 1)
    /\ [](eventsCloses <= 1 /\ errsCloses <= 1)

\* C2 witness: Closed reached from a delivery that was blocked on a full buffer.
C2_Witness ==
    /\ pc = "closed" /\ eventsCloses = 1 /\ errsCloses = 1
    /\ hist.abandoned # {} /\ Len(events) = EventsCap

\* The steps by which the goroutine leaves a suspension point because
\* ctx.Done() is ready. conn.ReadMessage has none: the read ends with a frame,
\* an error or the read deadline only.
CancelStep == DialCancelled \/ WaitCancelled \/ DeliverCancelled

SuspensionPoints == {"dial", "read", "waitDial", "waitRelay", "deliver"}

\* C3: at every suspension point (pending dial, pending read, backoff wait,
\* blocked delivery) an ended scope is observed there: the session can leave
\* the point without a frame, a read deadline, the timer or the consumer.
C3_ScopeObservedAtEverySuspensionPoint ==
    (~Live /\ pc \in SuspensionPoints) => ENABLED CancelStep

\* C4: when runSubscription ends because the scope ended, after its REQ was
\* sent, a CLOSE frame with the connection's subscription identifier has been
\* written before the connection is closed.
C4_CloseFrameWrittenOnCancellation ==
    (pc = "connClose" /\ err \in ScopeErrs /\ (\E f \in Range(sent) : f.tag = "REQ" /\ f.sub = subID))
        => WireFrame("CLOSE", subID) \in Range(sent)

\* The step that emits a dial attempt's error, before any dial has succeeded.
DialEmitStep == pc = "emitDial" /\ pc' = "waitDial" /\ conn = "none"

NothingDelivered == events = <<>> /\ received = <<>> /\ pending = NoItem

\* C5 as claimed: while every dial attempt fails, each attempt's error is
\* put on the errors channel, no event is emitted, and the channels are
\* closed only after the scope ends.
C5_EveryDialErrorOnChannel ==
    /\ [][DialEmitStep => errs' = Append(errs, ErrVal("dial", err))]_vars
    /\ [](conn = "none" => NothingDelivered)
    /\ [](conn = "none" /\ (eventsCloses > 0 \/ errsCloses > 0) => ~Live)

\* C5 as amended: while every dial attempt fails, each attempt's error is put
\* on the errors channel if the channel's single slot is free and is dropped
\* if an earlier error is still unreceived, so that after every attempt the
\* channel holds an error; no event is emitted, and the channels are closed
\* only after the scope ends.
C5_DialErrorQueuedOrDropped ==
    /\ [][DialEmitStep =>
            /\ errs' = (IF errs = <<>> THEN <<ErrVal("dial", err)>> ELSE errs)
            /\ Len(errs') = ErrsCap]_vars
    /\ [](conn = "none" => NothingDelivered)
    /\ [](conn = "none" /\ (eventsCloses > 0 \/ errsCloses > 0) => ~Live)

\* C5 witness: the error of the latest attempt (ended by the scope) was dropped
\* while the error of an earlier attempt is still in the channel.
C5_Witness ==
    /\ conn = "none" /\ pc = "waitDial" /\ err = "Canceled"
    /\ errs = <<ErrVal("dial", "net")>>

\* What C6 asks of an event handed to delivery, given the frame it came in.
WellSourced(p) ==
    /\ p.frame.json
    /\ Len(p.frame.elems) >= 3
    /\ p.frame.elems[1] = Str("EVENT")
    /\ p.frame.elems[2] = Str(p.reqSub)
    /\ \A j \in 1..(p.item.conn - 1) : randomSubID(j) # p.frame.elems[2].s
    /\ p.frame.elems[3].t = "obj"
    /\ Verify(p.frame.elems[3].e) = "nil"
    /\ p.item.evt = [p.frame.elems[3].e EXCEPT !.Relay = relay]

\* What C6 asks of an entry of the events channel.
WellFormed(it) == Verify(it.evt) = "nil" /\ it.evt.Relay = relay

\* C6: every event on the events channel came in an EVENT frame of 3 or more
\* elements carrying the subscription identifier of the REQ of the connection
\* it was read from (and of no earlier connection), passed Verify, and has the
\* relay address of the Stream call as its origin.
C6_OnlyVerifiedMatchingEventsDelivered ==
    /\ pc = "deliver" => WellSourced(pending)
    /\ \A i \in 1..Len(events) : WellFormed(events[i])
    /\ hist.accepted = {} => events = <<>>

\* C6 witness: an event read on the second connection is on the channel.
C6_Witness == Len(events) > 0 /\ events[1].conn = 2

\* The consumer's view: what it has received followed by what is buffered.
Consumed == received \o [i \in 1..Len(events) |-> <<events[i].conn, events[i].seq>>]

\* C7: events of one connection reach the consumer in the order their frames
\* were read.
C7_DeliveredInReadOrder ==
    \A i, j \in 1..Len(Consumed) :
        (i < j /\ Consumed[i][1] = Consumed[j][1]) => Consumed[i][2] < Consumed[j][2]

\* C7 witness: the consumer has received two events of the same connection.
C7_Witness == Len(received) = 2 /\ received[1][1] = received[2][1]

\* C8: a verified matching event that was read is on the channel (or already
\* received), or is the one being delivered, or was given up when the scope
\* ended during its delivery; the buffer never exceeds its capacity and no
\* frame is read while a delivery is pending.
C8_NoEventDroppedWhileLive ==
    /\ Len(events) <= EventsCap
    /\ pc \in {"read", "rtop"} => pending = NoItem
    /\ \A n \in hist.accepted :
          \/ \E k \in 1..Len(Consumed) : Consumed[k][2] = n
          \/ pc = "deliver" /\ pending.item.seq = n
          \/ n \in hist.abandoned /\ ~Live
    /\ hist.abandoned # {} => ~Live

\* C8 witness: the session is blocked delivering to a full buffer, scope live.
C8_Witness == pc = "deliver" /\ Len(events) = EventsCap /\ Live

\* C9 as claimed: after a transport failure of a connected session the steps
\* up to the next dial are emit, close, wait, in that order.
C9_EmitCloseWaitDial ==
    (pc = "dial" /\ hist.recov # <<>>)
        => hist.recov = <<"fail", "emit", "close", "wait", "dial">>

\* C9 as amended: after a transport failure of a connected session the steps
\* up to the next dial are close the transport, emit the error (dropped if an
\* error is pending), wait one backoff, in that order; the REQ of the next
\* connection carries a freshly drawn subscription identifier; the failure
\* never leads to Closed while the scope is live.
C9_CloseEmitWaitDial ==
    /\ (pc = "dial" /\ hist.recov # <<>>)
          => hist.recov = <<"fail", "close", "emit", "wait", "dial">>
    /\ hist.recov # <<>> /\ Live => pc \in {"connClose", "emitRelay", "waitRelay", "top", "dial"}
    /\ pc \in {"rtop", "read", "deliver"} =>
          /\ sent[1].tag = "REQ" /\ sent[1].sub = subID
          /\ \A j \in 1..(subN - 1) : randomSubID(j) # subID
    /\ pc \in {"deferErrs", "deferEvents", "closed"} => ~Live

\* C9 witness: the scope is live and the second connection has sent its REQ.
C9_Witness == Live /\ subN = 2 /\ pc = "rtop" /\ Len(sent) = 1

\* What one Publish call may do on its connection, in order.
PubSteps == <<"dial", "write", "read">>

IsPrefix(a, b) == Len(a) <= Len(b) /\ \A i \in 1..Len(a) : a[i] = b[i]

\* The steps a returned Publish has made, by the step whose failure it reports.
StepsBefore(kind) ==
    IF kind = "dial" THEN <<"dial">>
    ELSE IF kind = "write EVENT" THEN <<"dial", "write">>
    ELSE PubSteps

\* C10: Publish dials at most once, writes the ("EVENT", event) frame at most
\* once and reads at most once, in that order; it returns after the first
\* failing step without repeating any; the connection it opened is closed
\* when it returns.
C10_PublishIsSingleShot ==
    /\ IsPrefix(pub.log, PubSteps)
    /\ pub.pc = "done" => pub.ret.kind # "none" /\ pub.log = StepsBefore(pub.ret.kind)
    /\ pub.pc = "done" => pub.conn = (IF pub.ret.kind = "dial" THEN "none" ELSE "closed")
    /\ pub.pc # "done" => pub.ret = NotReturned /\ pub.conn = (IF pub.log = <<>> THEN "none" ELSE "open")
    /\ Len(pub.log) >= 2 /\ pub.ret.kind # "write EVENT"
          => pub.frame = Frame(<<Str("EVENT"), Obj(pub.evt)>>)

\* C10 witness: Publish returned the format error for a three-element OK
\* reply after one dial, one write and one read, with its connection closed.
C10_Witness ==
    /\ pub.pc = "done" /\ pub.ret.kind = "invalid OK message"
    /\ pub.data = Frame(<<Str("OK"), HexStr(pub.evt.ID), Bool(TRUE)>>)
    /\ pub.log = PubSteps /\ pub.conn = "closed"

\* Publish returned on the reply it read (no dial, write or read failure).
Decided == pub.pc = "done" /\ pub.ret.kind \notin {"dial", "write EVENT", "read OK"}

\* A reply of the shape ("OK", eventId, flag, message).
WellFormedAck(data) ==
    /\ data.json
    /\ Len(data.elems) = 4
    /\ data.elems[1] = Str("OK")
    /\ data.elems[2].t = "str"
    /\ data.elems[3].t = "bool"
    /\ data.elems[4].t = "str"

\* The echoed id is the id of the published event, letter case aside.
SameIDIgnoringCase(el, evt) == el.s = "#" /\ el.h.v = evt.ID.v

\* C11: for a well-formed acknowledgement ("OK", eventId, flag, message): a
\* false flag gives the rejection error carrying the echoed eventId and the
\* relay's message verbatim, also when the eventId mismatches; otherwise a
\* non-empty eventId that differs from the event's id case-insensitively gives
\* the mismatch error; otherwise Publish succeeds.
C11_AckDecidesOutcome ==
    (Decided /\ WellFormedAck(pub.data)) =>
        LET id == pub.data.elems[2]
            flag == pub.data.elems[3].b
            msg == pub.data.elems[4].s
        IN  IF ~flag THEN pub.ret = Ret("rejected", Text(id.s, id.h), msg)
            ELSE IF id # Str("") /\ ~SameIDIgnoringCase(id, pub.evt)
                 THEN pub.ret = Ret("mismatched id", Text(id.s, id.h), "")
            ELSE pub.ret.kind = "nil"

\* C11 witness: a reply with a false flag and another event's id was answered
\* with the rejection error, not the mismatch error.
C11_Witness ==
    /\ Decided
    /\ pub.data = OKFrame(HexStr(OtherID), Bool(FALSE), Str("rate limited"))
    /\ pub.ret = Ret("rejected", Text("#", OtherID), "rate limited")

FormatErrors ==
    {"unmarshal OK payload", "invalid OK message", "decode OK type",
     "unexpected message type", "decode OK id", "decode OK flag", "decode OK message"}

\* C12: the acknowledgement parser accepts a reply only if it is a JSON array
\* of exactly 4 elements ("OK", string, boolean, string), returning the three
\* values unchanged; every other reply (an element of another type, null
\* included) yields a format error, and Publish fails with it.
C12_OnlyStrictAcksAccepted ==
    Decided =>
        IF WellFormedAck(pub.data)
        THEN parseOKMessage(pub.data) =
                Parsed("nil", OkResult(Text(pub.data.elems[2].s, pub.data.elems[2].h),
                                       pub.data.elems[3].b, pub.data.elems[4].s))
        ELSE pub.ret.kind \in FormatErrors

\* The error kinds of Verify.
ErrKind(e) ==
    IF e = "nil" THEN "ok"
    ELSE IF e = "event id mismatch" THEN "IDMismatch"
    ELSE IF e \in {"pubkey decode", "invalid pubkey length", "pubkey parse"} THEN "InvalidPubKey"
    ELSE IF e \in {"signature decode", "signature parse"} THEN "InvalidSignature"
    ELSE "SignatureVerificationFailed"

\* The canonical payload of an event, and its digest in hex.
Payload(e) == <<0, e.PubKey, e.CreatedAt, e.Kind, e.Tags, e.Content>>

\* The earliest defective layer of an event in the order id, pubkey,
\* signature form, Schnorr verification.
EarliestDefect(e) ==
    IF e.ID.v # Payload(e) THEN "IDMismatch"
    ELSE IF e.PubKey \notin ValidPubKeys THEN "InvalidPubKey"
    ELSE IF e.Sig.form # "ok" THEN "InvalidSignature"
    ELSE IF ~(e.Sig.signer = e.PubKey /\ e.Sig.msg = Payload(e)) THEN "SignatureVerificationFailed"
    ELSE "ok"

\* C13: Verify checks (1) the id against the recomputed hash, (2) the pubkey
\* (32 bytes, a curve point), (3) the signature's form, (4) the Schnorr
\* signature, in this order, and returns the error of the earliest defective
\* layer of an event with several defects.
C13_EarliestLayerReported ==
    ev.pc = "verified" => ErrKind(ev.verr) = EarliestDefect(ev.evt)

\* An event as a caller builds it before signing.
ValidUnsigned(e) == e.ID = NoHex /\ e.Sig = NoSig /\ e.PubKey \in ValidPubKeys

SignedAsClaimed ==
    /\ ev.serr = "nil"
    /\ ev.held.ID = Hex(Payload(ev.orig), FALSE)
    /\ ev.held.Sig.form = "ok"
    /\ ev.held.Sig.msg = Payload(ev.orig)

\* C14 as claimed: for every valid unsigned event and every 32-byte private
\* key, SignEvent succeeds, sets id to the hex of the hash of (0, pubkey,
\* created_at, kind, tags, content) and sets sig, and Verify of the signed
\* event succeeds.
C14_SignThenVerifySucceeds ==
    (ev.pc \in {"signed", "verified"} /\ ev.via \in {"none", "signed"}
        /\ ev.key.len = KeyLen /\ ValidUnsigned(ev.orig)) =>
            /\ SignedAsClaimed
            /\ ev.pc = "verified" => ev.verr = "nil"

\* C14 as amended: for every valid unsigned event and every 32-byte private
\* key whose public key is the event's pubkey, SignEvent succeeds, sets id to
\* the hex of the hash of (0, pubkey, created_at, kind, tags, content) and
\* sets sig, and Verify of the signed event succeeds.
C14_SignWithOwnKeyThenVerifySucceeds ==
    (ev.pc \in {"signed", "verified"} /\ ev.via \in {"none", "signed"}
        /\ ev.key.len = KeyLen /\ ValidUnsigned(ev.orig)
        /\ ev.orig.PubKey = PubOf(ev.key.d)) =>
            /\ SignedAsClaimed
            /\ ev.pc = "verified" => ev.verr = "nil"

\* C14 witness: an unsigned event with a tag, signed with its author's key,
\* was verified.
C14_Witness ==
    /\ ev.pc = "verified" /\ ev.via = "signed" /\ ev.verr = "nil"
    /\ ValidUnsigned(ev.orig) /\ ev.orig.Tags # <<>>
    /\ ev.key = PrivKey(KeyLen, "dB")

\* Verify was called on a valid signed event after one field was overwritten.
TamperedVerified ==
    /\ ev.pc = "verified" /\ ev.via = "tampered"
    /\ EarliestDefect(ev.held) = "ok"

\* C15 as claimed: for a signed valid event, changing id alone makes Verify
\* fail with the id-mismatch error, changing pubkey alone with the
\* invalid-pubkey error, changing sig alone with the invalid-signature or the
\* verification-failed error.
C15_EachFieldItsOwnError ==
    TamperedVerified =>
        /\ ev.field = "id" => ErrKind(ev.verr) = "IDMismatch"
        /\ ev.field = "pubkey" => ErrKind(ev.verr) = "InvalidPubKey"
        /\ ev.field = "sig" =>
              ErrKind(ev.verr) \in {"InvalidSignature", "SignatureVerificationFailed"}

\* C15 as amended: for a signed valid event, changing id alone to a value
\* that differs in more than letter case makes Verify fail with the
\* id-mismatch error (a change of letter case only leaves Verify succeeding);
\* changing pubkey alone makes Verify fail with the id-mismatch error, the
\* pubkey being part of the hashed payload; changing the signature alone
\* makes Verify fail with the invalid-signature or the verification-failed
\* error.
C15_FieldChangeErrors ==
    TamperedVerified =>
        /\ ev.field = "id" =>
              ErrKind(ev.verr) = (IF ev.evt.ID.v = ev.held.ID.v THEN "ok" ELSE "IDMismatch")
        /\ ev.field = "pubkey" => ErrKind(ev.verr) = "IDMismatch"
        /\ ev.field = "sig" =>
              ErrKind(ev.verr) \in {"InvalidSignature", "SignatureVerificationFailed"}

\* C15 witness: Verify reported the id mismatch for a signed event whose
\* pubkey was replaced by another valid key.
C15_Witness ==
    /\ TamperedVerified /\ ev.field = "pubkey"
    /\ ev.held.PubKey = "pkA" /\ ev.evt.PubKey = "pkB"
    /\ ev.verr = "event id mismatch"

\* C19: SignEvent with a private key that is not 32 bytes long fails with the
\* invalid-key-length error before hashing or signing and leaves the event,
\* its id and sig included, as it was.
C19_WrongKeyLengthLeavesEventAlone ==
    (ev.pc = "signed" /\ ev.key.len # KeyLen) =>
        /\ ev.serr = "invalid private key length"
        /\ ev.steps = <<>>
        /\ ev.evt.ID = ev.orig.ID /\ ev.evt.Sig = ev.orig.Sig
        /\ ev.evt = ev.orig

\* C19 witness: SignEvent with a 2-byte key returned on an event that carried
\* an id and a signature.
C19_Witness ==
    /\ ev.pc = "signed" /\ ev.key = PrivKey(2, "dA")
    /\ ev.serr = "invalid private key length"
    /\ ev.orig.ID = OtherID /\ ev.orig.Sig.form = "ok" /\ ev.evt = ev.orig

Has(k) == k \in DOMAIN flt.out

\* Each present key maps to its field's value, since and until as Unix seconds.
PresentKeysHoldValues ==
    /\ Has("authors") => flt.out["authors"] = flt.f.Authors
    /\ Has("kinds") => flt.out["kinds"] = flt.f.Kinds
    /\ Has("since") => flt.out["since"] = flt.f.Since.sec
    /\ Has("until") => flt.out["until"] = flt.f.Until.sec
    /\ Has("limit") => flt.out["limit"] = flt.f.Limit

FilterExamples ==
    /\ flt.f = Filter(<<>>, <<>>, NilTime, NilTime, 0) => DOMAIN flt.out = {}
    /\ flt.f = Filter(<<>>, <<>>, NilTime, NilTime, 42) =>
          DOMAIN flt.out = {"limit"} /\ flt.out["limit"] = 42

AllSpace(s) == \A i \in 1..Len(s) : s[i] \in Spaces

\* The bech32 strings that hold an nsec of 32 bytes.
GoodNsecs == {"nsec1dA", "nsec1dB", "nsec1zero"}

NonSpace(c) == c \notin Spaces

\* The errors that correspond to the defects of the caller's input.
InputDefects ==
    (IF AllSpace(post.req.Relay) THEN {"relay is required"} ELSE {})
    \cup (IF AllSpace(post.req.Content) THEN {"content is empty"} ELSE {})
    \cup (IF AllSpace(post.env) THEN {"NOSTR_NSEC is not set"} ELSE {})
    \cup (IF ~AllSpace(post.env)
             /\ ~(\E i \in 1..Len(post.env) :
                     /\ post.env[i] \in GoodNsecs
                     /\ \A j \in 1..Len(post.env) : j # i => post.env[j] \in Spaces)
          THEN {"decode NOSTR_NSEC"} ELSE {})

\* C17: when the relay is blank, the trimmed content is empty, the private key
\* is not configured or does not decode to 32 bytes, Run returns the
\* corresponding error, Publish is not called and nothing is written; Publish
\* is called at most once per Run in every case.
C17_InputErrorsFailFast ==
    /\ InputDefects # {} =>
          /\ post.pc \in {"new", "done"}
          /\ post.pc = "done" => post.ret \in InputDefects
          /\ post.calls = <<>> /\ post.out = <<>> /\ post.log = <<>>
    /\ Len(post.calls) <= 1

\* C17 witness: Run returned the decode error for a key of 31 bytes, with a
\* relay and a content given, without a Publish call.
C17_Witness ==
    /\ post.pc = "done" /\ post.ret = "decode NOSTR_NSEC"
    /\ post.env = <<"nsec1short">>
    /\ ~AllSpace(post.req.Relay) /\ ~AllSpace(post.req.Content)
    /\ post.calls = <<>> /\ post.out = <<>>

\* t is s without its leading and trailing white space.
IsTrimOf(t, s) ==
    \E i \in 1..(Len(s) + 1), j \in 0..Len(s) :
        /\ t = SubSeq(s, i, j)
        /\ \A k \in 1..Len(s) : (k < i \/ k > j) => s[k] \in Spaces
        /\ t # <<>> => (t[1] \notin Spaces /\ t[Len(t)] \notin Spaces)

PostSteps == <<"sign", "publish", "write">>

\* What C18 asks of a Publish call made by Run.
CallAsClaimed(c) ==
    /\ c.relay = post.req.Relay
    /\ Verify(c.evt) = "nil"
    /\ c.evt.Kind = 1
    /\ IsTrimOf(c.evt.Content, post.req.Content)
    /\ c.evt.Tags = (IF post.req.ReplyTo = "" THEN <<>> ELSE <<<<"e", post.req.ReplyTo>>>>)

\* C18: on the success path Run calls Publish exactly once with the requested
\* relay and an event that is signed and passes Verify, of kind 1, with the
\* trimmed content and the tags [["e", replyTo]] or none; signing comes before
\* Publish, the 'published' line is written only after Publish succeeded, and
\* when Publish fails its error is returned and nothing is written.
C18_SignedEventPublishedOnce ==
    /\ IsPrefix(post.log, PostSteps)
    /\ Len(post.calls) = (IF Len(post.log) >= 2 THEN 1 ELSE 0)
    /\ \A i \in 1..Len(post.calls) : CallAsClaimed(post.calls[i])
    /\ (post.pc = "done" /\ post.ret = "nil") =>
          /\ post.log = PostSteps
          /\ Len(post.calls) = 1
          /\ post.out = <<PublishedLine(post.calls[1].evt.ID, post.req.Relay)>>
    /\ post.out # <<>> => (post.pc = "done" /\ post.ret = "nil")
    /\ (post.pc = "done" /\ post.log = <<"sign", "publish">>) =>
          post.ret = "publish failed" /\ post.out = <<>>

\* C18 witness: Run succeeded for a reply whose content had surrounding white
\* space, with the key given with surrounding white space.
C18_Witness ==
    /\ post.pc = "done" /\ post.ret = "nil"
    /\ post.req = Request(<<" ", "wss://r1">>, <<" ", "hello", " ", "nostr", "\n">>, "abcdef")
    /\ post.env = <<" ", "nsec1dB", "\n">>
    /\ Len(post.calls) = 1
    /\ post.calls[1].evt.Content = <<"hello", " ", "nostr">>
    /\ post.calls[1].evt.PubKey = "pkB"
    /\ Len(post.out) = 1

\* An EVENT frame of 3 or more elements with the subscription identifier sub
\* and an event that passes Verify.
VerifiedMatchingEvent(f, sub) ==
    /\ f.json
    /\ Len(f.elems) >= 3
    /\ f.elems[1] = Str("EVENT")
    /\ f.elems[2] = Str(sub)
    /\ f.elems[3].t = "obj"
    /\ Verify(f.elems[3].e) = "nil"

\* A step of the read loop that takes one frame from the connection.
FrameReadStep == pc = "read" /\ reads' = reads + 1

\* The step changed nothing of the session but the count of frames read.
SessionUntouched ==
    /\ pc' = "rtop"
    /\ UNCHANGED <<relay, ctx, conn, subN, subID, err, pending, events, errs,
                   eventsCloses, errsCloses, sent, received, dials, hist>>

\* C20: in the Reading state a frame other than a verified EVENT with the
\* matching subscription identifier (EOSE, NOTICE, an unknown tag, non-JSON or
\* empty-array data, an EVENT with fewer than 3 elements, with another
\* subscription identifier or with an event that fails Verify) puts nothing on
\* the events and errors channels, leaves the connection open and the
\* subscription identifier as it was, and the session goes on reading; a
\* verified matching EVENT is delivered.
C20_OtherFramesLeaveSessionUnchanged ==
    /\ [](pc = "read" =>
            \A f \in InFrames :
                HandleFrame(f, subID, relay).deliver <=> VerifiedMatchingEvent(f, subID))
    /\ [][FrameReadStep =>
            \/ pc' = "deliver" /\ VerifiedMatchingEvent(pending'.frame, subID)
            \/ SessionUntouched]_vars
    /\ [](pc = "rtop" /\ Live => conn = "open" /\ ENABLED ReadLoopTop)

\* C20 witness: on the first connection the first frame was ignored and the
\* second, a verified matching EVENT, is on the events channel; nothing is on
\* the errors channel and the connection is open.
C20_Witness ==
    /\ conn = "open" /\ subN = 1 /\ dials = 1
    /\ reads = 2 /\ hist.accepted = {2}
    /\ Len(events) = 1 /\ events[1].seq = 2
    /\ errs = <<>> /\ received = <<>>

\* The REQ frames written on the current connection.
ReqsSent == SelectSeq(sent, LAMBDA f : f.tag = "REQ")

\* The encoded filter p has the key k.
HasKey(p, k) == k \in DOMAIN p

\* The encoded filter p carries the caller's authors, kinds, until and limit.
CarriesCallerFields(p) ==
    /\ HasKey(p, "authors") = (Len(filter.Authors) > 0)
    /\ HasKey(p, "authors") => p["authors"] = filter.Authors
    /\ HasKey(p, "kinds") = (Len(filter.Kinds) > 0)
    /\ HasKey(p, "kinds") => p["kinds"] = filter.Kinds
    /\ HasKey(p, "until") = ~filter.Until.nil
    /\ HasKey(p, "until") => p["until"] = Unix(filter.Until)
    /\ HasKey(p, "limit") = (filter.Limit > 0)
    /\ HasKey(p, "limit") => p["limit"] = filter.Limit

\* Once a connection is subscribed, one REQ frame has been written on it, as
\* its first frame; its since is the time of the subscription and its other
\* fields are the caller's. Before the subscription nothing is written.
SubscribedWithSinceNow ==
    /\ pc \in {"rtop", "read", "deliver"} =>
          /\ conn = "open"
          /\ Len(ReqsSent) = 1
          /\ sent[1].tag = "REQ"
          /\ sent[1].sub = subID
          /\ HasKey(sent[1].filter, "since")
          /\ sent[1].filter["since"] = Unix(TimeNow(subN))
          /\ CarriesCallerFields(sent[1].filter)
    /\ pc \in {"top", "dial", "sub"} => sent = <<>>

\* C21: on every successful connect, the first and every reconnect, the
\* session writes exactly one REQ frame before it reads any frame; the
\* filter of the REQ has since set to the time of that subscribe step,
\* whatever since the caller supplied, and the caller's authors, kinds, until
\* and limit; Stream does not modify the caller's Filter value.
C21_ReqCarriesSinceNow == [][SubscribedWithSinceNow' /\ filter' = filter]_vars

\* C21 witness: a read is pending on the second connection of a call whose
\* filter supplied a since of its own.
C21_Witness ==
    /\ pc = "read"
    /\ subN = 2
    /\ ~filter.Since.nil
    /\ sent[1].filter["since"] # Unix(filter.Since)

\* The scope has ended and the session is waiting to retry, about to check
\* the scope before it dials, or on its way out.
EndedBeforeDial ==
    /\ ~Live
    /\ pc \in {"waitDial", "waitRelay", "top", "deferErrs", "deferEvents", "closed"}

\* The session is Closed and stays as it is, but for what the consumer takes
\* out of the channels.
ClosedIsFinal ==
    pc = "closed" =>
        /\ pc' = "closed"
        /\ dials' = dials
        /\ conn' = conn
        /\ sent' = sent
        /\ events' = events \/ (events # <<>> /\ events' = Tail(events))
        /\ errs' = errs \/ (errs # <<>> /\ errs' = Tail(errs))
        /\ eventsCloses' = eventsCloses
        /\ errsCloses' = errsCloses

\* C22: when the scope ends during a backoff wait, or has ended when the
\* session is about to dial, the session goes to Closed without starting
\* another dial attempt; once Closed it dials no more, writes no frame,
\* delivers no event and emits no error.
C22_EndedScopeClosesWithoutDial ==
    /\ [][EndedBeforeDial => (EndedBeforeDial' /\ pc' # "dial" /\ dials' = dials)]_vars
    /\ [][ClosedIsFinal]_vars
    /\ (EndedBeforeDial ~> pc = "closed")

\* C22 witness: the session is Closed after a single dial attempt, which
\* failed, the scope having been cancelled before a second one.
C22_Witness ==
    /\ pc = "closed"
    /\ ctx = "Canceled"
    /\ dials = 1
    /\ conn = "none"
    /\ errs = <<ErrVal("dial", "net")>>

\* The session is in a backoff wait.
Waiting == pc \in {"waitDial", "waitRelay"}

\* C23: the interval waited before each retry is the client's configured
\* backoff, the same on every retry: it does not depend on the number of
\* failures so far nor on whether a dial or a subscription failed, and the
\* configured value does not change during the Stream call.
C23_BackoffIsConstant ==
    [][(Waiting' => timer' = client.backoff) /\ client' = client]_vars

\* C23 witness: the session waits to retry for the second time, after a
\* failed dial and then a failed subscription, with the timer set to the
\* configured backoff.
C23_Witness ==
    /\ pc = "waitRelay"
    /\ dials = 2
    /\ subN = 1
    /\ timer = NewClient.backoff

\* The reads Publish has made.
PubReads == SelectSeq(pub.log, LAMBDA step : step = "read")

\* C24: after it has written the EVENT frame, Publish waits no longer than
\* its read deadline, which is the scope's deadline when the scope has one
\* and otherwise now plus the client's default read timeout; so a read that
\* gets no reply ends, Publish then failing with a read error, and Publish
\* never makes a second read.
C24_PublishReadIsBounded ==
    /\ [][pub'.pc = "read" =>
             pub'.readDeadline = (IF pub.ctxDeadline THEN "ctx" ELSE "default")]_vars
    /\ (pub.pc = "read" ~> pub.pc # "read")
    /\ [][(pub.pc = "read" /\ pub'.pc = "done") => pub'.ret.kind = "read OK"]_vars
    /\ [][Len(PubReads') <= 1]_vars

\* C24 witness: with no scope deadline, Publish returned a read error after
\* its one read, made under the default read timeout.
C24_Witness ==
    /\ pub.pc = "done"
    /\ ~pub.ctxDeadline
    /\ pub.readDeadline = "default"
    /\ pub.ret.kind = "read OK"
    /\ pub.log = <<"dial", "write", "read">>

\* Run returns nil in this step.
ReturnsNil == tl.pc = "select" /\ tl'.pc = "done" /\ tl'.ret = "nil"

\* Run receives an error value in this step.
ReceivesError == tl.pc = "select" /\ tl.erq.buf # <<>> /\ tl'.erq.buf = Tail(tl.erq.buf)

\* C25: Run returns nil only when the scope is done or both the events and
\* the errors channel have been closed: one closed channel alone does not
\* end Run, and Run receives from a closed channel once and not again; an
\* error value received on errors does not end Run; Run calls Stream once,
\* for the first relay of the request, and with no relay it returns an
\* error without calling Stream.
C25_RunEndsOnScopeOrBothClosed ==
    /\ [][ReturnsNil => (tl.done \/ (tl.evq.closed /\ tl.erq.closed))]_vars
    /\ [][tl'.evNotOK <= 1 /\ tl'.erNotOK <= 1]_vars
    /\ [][ReceivesError => tl'.pc = "select"]_vars
    /\ [][tl'.calls = IF tl'.pc = "start" \/ tl'.relays = <<>> THEN <<>>
                      ELSE <<StreamCall(tl'.relays[1],
                                 Filter(<<>>, <<KindTextNote>>, NilTime, NilTime, 0))>>]_vars
    /\ [][tl'.relays = <<>> /\ tl'.pc = "done" => tl'.ret = "relay is required"]_vars

\* C25 witness: Run has returned nil with the scope live, after both
\* channels were closed, having logged an error it received on the way.
C25_Witness ==
    /\ tl.pc = "done"
    /\ tl.ret = "nil"
    /\ ~tl.done
    /\ tl.evq.closed
    /\ tl.erq.closed
    /\ tl.warns = <<"net">>
    /\ Len(tl.relays) = 2

\* The positions inside runSubscription.
InSubscription == pc \in {"sub", "rtop", "read", "deliver"}

\* C27: a Stream session holds at most one open connection: the connection
\* it opened is closed before the next dial attempt starts and before the
\* output channels are closed, on every path out of the subscription loop.
C27_ConnectionClosedBeforeRedialAndClose ==
    [][/\ pc' \in {"top", "dial", "emitDial", "waitDial"} => conn' # "open"
       /\ (errsCloses' > 0 \/ eventsCloses' > 0 \/ pc' \in {"deferErrs", "deferEvents", "closed"})
             => conn' # "open"
       /\ (InSubscription /\ ~InSubscription') => pc' = "connClose"
       /\ (pc = "connClose" /\ pc' # "connClose") => (conn = "open" /\ conn' = "closed")]_vars

\* C27 witness: the session is dialing again with its first connection
\* closed.
C27_Witness ==
    /\ pc = "dial"
    /\ dials = 1
    /\ subN = 1
    /\ conn = "closed"

\* The session is at a call of emitError.
Emitting == pc \in {"emitDial", "emitRelay"}

\* C28: emitting an error never blocks: the errors channel holds at most one
\* pending error, and an error emitted while it is full is dropped; with a
\* consumer that never receives from the errors channel the session still
\* gets past every emit and every backoff wait, has delivered events, and
\* reaches Closed once its scope has ended.
C28_EmitNeverBlocks ==
    /\ [][Len(errs') <= 1]_vars
    /\ [][(Emitting /\ ~Emitting' /\ Len(errs) = 1) => errs' = errs]_vars
    /\ (Emitting ~> ~Emitting)
    /\ (Waiting ~> ~Waiting)
    /\ (~Live ~> pc = "closed")

\* C28 witness: the scope is live and the first dial's error is still in the
\* errors channel; the session has since reconnected, delivered an event and,
\* its subscription having failed, emitted a second error, which was
\* dropped, and started the next backoff wait.
C28_Witness ==
    /\ Live
    /\ pc = "waitRelay"
    /\ dials = 2
    /\ subN = 1
    /\ errs = <<ErrVal("dial", "net")>>
    /\ received # <<>>

\* C29: a session that ends because its scope ended does not surface that as
\* an error: the errors channel never receives an error whose cause is the
\* end of the scope, be it a cancellation or the deadline, whichever position
\* the session was in when the scope ended.
C29_ScopeEndIsNotAnError ==
    \A i \in 1..Len(errs) : errs[i].cause \notin ScopeErrs

\* The event differs from the one held at most in id, sig and origin.
DiffersInIdSigOrigin ==
    [ev.evt EXCEPT !.ID = ev.held.ID, !.Sig = ev.held.Sig, !.Relay = ev.held.Relay] = ev.held

\* C30: the hash of an event depends on its pubkey, created_at, kind, tags
\* and content only: an event whose id, sig or origin was overwritten has the
\* hash it had before; so signing a signed event again with the same key
\* gives the same id, and stamping the origin on an event does not change
\* the result of Verify.
C30_HashIgnoresIdSigOrigin ==
    /\ (ev.pc \in {"tampered", "stamped", "resigned"} /\ DiffersInIdSigOrigin)
          => hashEvent(ev.evt) = hashEvent(ev.held)
    /\ ev.pc = "resigned" => (ev.serr = "nil" /\ ev.evt.ID = ev.held.ID)
    /\ (ev.pc = "verified" /\ ev.via = "stamped") => ev.verr = Verify(ev.held)

\* C30 witness: a signed event was stamped with its relay and Verify
\* succeeded on it.
C30_Witness ==
    /\ ev.pc = "verified"
    /\ ev.via = "stamped"
    /\ ev.evt.Relay = "wss://r2"
    /\ ev.held.Relay = ""
    /\ ev.steps = <<"hash", "sign">>
    /\ ev.verr = "nil"

\* The other of the two calls.
OtherCall(i) == IF i = 1 THEN 2 ELSE 1

\* What is in the channel pair k came from call k: its events were read on
\* connections call k dialed and carry call k's relay as origin, and its
\* errors are about call k's relay.
OwnTraffic(k) ==
    /\ \A n \in 1..Len(duo.chans[k].events) :
          /\ duo.chans[k].events[n].conn.by = k
          /\ duo.chans[k].events[n].evt.Relay = DuoRelay(k)
    /\ \A n \in 1..Len(duo.chans[k].errs) : duo.chans[k].errs[n].relay = DuoRelay(k)

\* The open connections of the two calls and of Publish are different ones.
OwnConnections ==
    /\ (duo.call[1].open /\ duo.call[2].open) => duo.call[1].conn # duo.call[2].conn
    /\ \A i \in DuoCalls :
          (duo.call[i].open /\ duo.pub.pc = "open") => duo.call[i].conn # duo.pub.conn

\* C26: two Stream calls running on the same Client do not interfere: each
\* has its own connection and channel pair; an event read on one call's
\* connection is delivered only on that call's events channel, with that
\* call's relay as origin; a step of one call, be it a failure, a reconnect
\* or its cancellation, changes neither the state nor the channels of the
\* other; a concurrent Publish has its own connection and changes no call.
C26_ConcurrentCallsDoNotInterfere ==
    [][/\ \A k \in DuoCalls : OwnTraffic(k)'
       /\ OwnConnections'
       /\ \A i \in DuoCalls :
             duo'.call[i] # duo.call[i] =>
                /\ duo'.call[OtherCall(i)] = duo.call[OtherCall(i)]
                /\ duo'.chans[OtherCall(i)] = duo.chans[OtherCall(i)]
       /\ duo'.pub # duo.pub => (duo'.call = duo.call /\ duo'.chans = duo.chans)]_vars

\* C26 witness: the second call was cancelled and has closed its channels
\* while the first, whose first dial failed, is subscribed on the connection
\* of its second dial with its own channels open and an event in them, and
\* a Publish holds a connection.
C26_Witness ==
    /\ duo.call[2].pc = "closed"
    /\ duo.chans[2].closed
    /\ duo.call[1].pc = "read"
    /\ duo.call[1].open
    /\ duo.call[1].conn.n > 1
    /\ ~duo.chans[1].closed
    /\ duo.chans[1].events # <<>>
    /\ duo.pub.pc = "open"

====
